---- MODULE Spec2Model ----
(***************************************************************************)
(* A model of the aerostream post-acquisition pipeline:                    *)
(*   src/src/processing/qc_engine.py   QCSummary, QCEngine                 *)
(*   src/src/processing/despiker.py    Despiker                            *)
(*   src/src/processing/resampler.py   Resampler                           *)
(*   src/src/processing/processor.py   RunProcessor.save_results           *)
(*   src/src/db/operations.py          save_run_statistics, save_qc_*      *)
(*                                                                         *)
(* Arithmetic is exact.  Times are integers in milliseconds, percentages   *)
(* are kept as fractions <<numerator, denominator>>, percentage thresholds *)
(* are integers in tenths of a percent, and a median is kept doubled       *)
(* (Median2) so that the mean of the two middle elements stays an integer. *)
(***************************************************************************)
EXTENDS Integers, Sequences, FiniteSets, TLC

(***************************************************************************)
(* Bounds of the model.                                                    *)
(***************************************************************************)
MaxChecks == 3      \* add_check calls on one QCSummary
MaxChannels == 2    \* channels in one run_all_checks call
MaxCount == 6       \* small expected / actual sample counts
MaxLen == 6         \* samples in one despiked series
MaxPeriods == 3     \* sample periods one resampled channel spans
MaxSaves == 2       \* save_results calls on one database
MaxPoints == 4      \* raw samples of one channel
MaxAeroLen == 2     \* time points of one AeroCalculator dataset
MaxIntervals == 7   \* intervals between the timestamps of one gap check
MaxMessages == 3    \* messages in the topic a SensorDataConsumer reads
MaxPermuted == 4    \* samples of a list that is delivered in every order

VARIABLES
    summary,      \* the QCSummary object (qc_engine.py:35-46)
    finalized,    \* TRUE when finalize() ran after the last add_check
    thresholds,   \* QCEngine.thresholds (qc_engine.py:117-119)
    call,         \* the last QCEngine call: its arguments and its result
    despiker,     \* the Despiker object (despiker.py:55-57)
    dcall,        \* the last Despiker call: its arguments and its results
    resampler,    \* the Resampler object (resampler.py:26-27)
    rcall,        \* the last Resampler call: its arguments and its result
    db,           \* the tables save_results writes (operations.py:402-533)
    save,         \* the save_results call in progress and the last one done
    acalc,        \* the AeroCalculator object (aero_metrics.py:84-86)
    acall,        \* the last AeroCalculator call: its arguments and its result
    class_thresholds,  \* the class attribute QCEngine.DEFAULT_THRESHOLDS
    procs,        \* the RunProcessor objects created so far (processor.py:81-102)
    frames,       \* the process_from_samples invocations: position and local variables
    broker,       \* the topic partition: its log, the position of the consumer and the committed offset
    consumer,     \* the SensorDataConsumer object and the consume call (consumer.py:63-66, 169-228)
    sample_rows,  \* the messages whose sample is in the samples table (operations.py:346-395)
    run_rows,     \* the rows of the runs table, but for state_id, which db.runs holds (operations.py:211-234)
    creators,     \* the create_run calls under way, one per client (operations.py:179-234)
    request,      \* the demo_run_requests row: its status and run_id (operations.py:63-108)
    helper        \* the invocation of scripts/admin_fulfill_demo_request.py main

qcVars == <<summary, finalized, thresholds, call>>
despikeVars == <<despiker, dcall>>
resamplerVars == <<resampler, rcall>>
saveVars == <<db, save>>
aeroVars == <<acalc, acall>>
pipeVars == <<class_thresholds, procs, frames>>
consumerVars == <<broker, consumer, sample_rows>>
runVars == <<run_rows, creators>>
helperVars == <<request, helper>>
vars == <<summary, finalized, thresholds, call, despiker, dcall, resampler,
          rcall, db, save, acalc, acall, class_thresholds, procs, frames,
          broker, consumer, sample_rows, run_rows, creators, request, helper>>

\* what the operations of one component leave alone
notQC == <<despikeVars, resamplerVars, saveVars, aeroVars, pipeVars,
    consumerVars, runVars, helperVars>>
notDespiker == <<qcVars, resamplerVars, saveVars, aeroVars, pipeVars,
    consumerVars, runVars, helperVars>>
notResampler == <<qcVars, despikeVars, saveVars, aeroVars, pipeVars,
    consumerVars, runVars, helperVars>>
notSave == <<qcVars, despikeVars, resamplerVars, aeroVars, pipeVars,
    consumerVars, runVars, helperVars>>
notAero == <<qcVars, despikeVars, resamplerVars, saveVars, pipeVars,
    consumerVars, runVars, helperVars>>
notPipeline == <<qcVars, despikeVars, resamplerVars, saveVars, aeroVars,
    consumerVars, runVars, helperVars>>
notConsumer == <<qcVars, despikeVars, resamplerVars, saveVars, aeroVars,
    pipeVars, runVars, helperVars>>
notRuns == <<qcVars, despikeVars, resamplerVars, saveVars, aeroVars,
    pipeVars, consumerVars, helperVars>>
notRunsOrSave == <<qcVars, despikeVars, resamplerVars, aeroVars, pipeVars,
    consumerVars, helperVars>>
notHelper == <<qcVars, despikeVars, resamplerVars, saveVars, aeroVars,
    pipeVars, consumerVars, runVars>>
notHelperOrRuns == <<qcVars, despikeVars, resamplerVars, aeroVars, pipeVars,
    consumerVars>>

\* Optional values: None is the empty tuple, a present integer x is Some(x),
\* a present fraction is the pair <<numerator, denominator>>
None == <<>>
Some(x) == <<x>>

(***************************************************************************)
(* QCStatus (qc_engine.py:13-18).                                          *)
(***************************************************************************)
PASS == "pass"
WARN == "warn"
FAIL == "fail"
SKIP == "skip"
QCStatus == {PASS, WARN, FAIL, SKIP}

(***************************************************************************)
(* Helpers on sequences.                                                   *)
(***************************************************************************)
Max(a, b) == IF a >= b THEN a ELSE b
Min(a, b) == IF a <= b THEN a ELSE b
Abs(x) == IF x < 0 THEN -x ELSE x

\* np.diff: the sequence of consecutive differences
Diff(s) == [i \in 1..(IF Len(s) = 0 THEN 0 ELSE Len(s) - 1) |-> s[i + 1] - s[i]]

LessThan(a, b) == a < b

\* 2 * np.median(s) for a non-empty sequence of integers: the middle element,
\* or the mean of the two middle elements, of the sorted sequence
Median2(s) ==
    LET t == SortSeq(s, LessThan)
        n == Len(t)
    IN  IF n % 2 = 1 THEN 2 * t[(n + 1) \div 2]
        ELSE t[n \div 2] + t[n \div 2 + 1]

\* len(dt[dt > gap_threshold]): the number of elements above the threshold
CountAbove(dt, gap_threshold) == Cardinality({i \in 1..Len(dt) : dt[i] > gap_threshold})

(***************************************************************************)
(* QCSummary (qc_engine.py:35-83).                                         *)
(***************************************************************************)
NewSummary(status) ==
    [overall_status |-> status, checks |-> <<>>, total_checks |-> 0,
     passed_checks |-> 0, warning_checks |-> 0, failed_checks |-> 0,
     skipped_checks |-> 0, critical_issues |-> <<>>, recommendations |-> <<>>]

\* QCSummary.add_check with the critical issue put in front of the list
add_check_IssueFirst(s, check) ==
    LET t == [s EXCEPT !.checks = Append(@, check), !.total_checks = @ + 1]
    IN  IF check.status = PASS THEN [t EXCEPT !.passed_checks = @ + 1]
        ELSE IF check.status = WARN THEN [t EXCEPT !.warning_checks = @ + 1]
        ELSE IF check.status = FAIL
        THEN [t EXCEPT !.failed_checks = @ + 1,
                       !.critical_issues =
                           <<<<check.rule_code, check.details>>>> \o @]
        ELSE [t EXCEPT !.skipped_checks = @ + 1]

\* QCSummary.add_check with the FAIL branch taken for WARN as well
add_check_WarnAsFail(s, check) ==
    LET t == [s EXCEPT !.checks = Append(@, check), !.total_checks = @ + 1]
    IN  IF check.status = PASS THEN [t EXCEPT !.passed_checks = @ + 1]
        ELSE IF check.status = WARN \/ check.status = FAIL
        THEN [t EXCEPT !.failed_checks = @ + 1,
                       !.critical_issues =
                           Append(@, <<check.rule_code, check.details>>)]
        ELSE [t EXCEPT !.skipped_checks = @ + 1]

add_check(s, check) ==
    LET t == [s EXCEPT !.checks = Append(@, check), !.total_checks = @ + 1]
    IN  IF check.status = PASS THEN [t EXCEPT !.passed_checks = @ + 1]
        ELSE IF check.status = WARN THEN [t EXCEPT !.warning_checks = @ + 1]
        ELSE IF check.status = FAIL
        THEN [t EXCEPT !.failed_checks = @ + 1,
                       !.critical_issues =
                           Append(@, <<check.rule_code, check.details>>)]
        ELSE [t EXCEPT !.skipped_checks = @ + 1]

finalize(s) ==
    IF s.failed_checks > 0 THEN [s EXCEPT !.overall_status = FAIL]
    ELSE IF s.warning_checks > 0 THEN [s EXCEPT !.overall_status = WARN]
    ELSE [s EXCEPT !.overall_status = PASS]

(***************************************************************************)
(* QCCheck (qc_engine.py:21-32).  details is the fixed part of the text.   *)
(***************************************************************************)
QCCheck(id, code, status, measured, warn, fail, details, channel) ==
    [rule_id |-> id, rule_code |-> code, status |-> status,
     measured_value |-> measured, threshold_warn |-> warn,
     threshold_fail |-> fail, details |-> details, channel_id |-> channel]

(***************************************************************************)
(* QCEngine thresholds.  Percentages in tenths of a percent,               *)
(* flatline_duration in milliseconds.                                      *)
(***************************************************************************)
DEFAULT_THRESHOLDS ==
    [missing_warn |-> 10, missing_fail |-> 50,
     spike_warn |-> 5, spike_fail |-> 20,
     stability_warn |-> 50, stability_fail |-> 100,
     flatline_duration |-> 1000]

\* QCEngine.__init__: the defaults, updated with the overrides given
QCEngineInit(overrides) ==
    [k \in DOMAIN DEFAULT_THRESHOLDS |->
        IF k \in DOMAIN overrides THEN overrides[k] ELSE DEFAULT_THRESHOLDS[k]]

\* a percentage num/den (den > 0) compared with a threshold in tenths
PctGE(num, den, tenths) == 10 * num >= tenths * den

\* QCEngine.check_missing_samples with the fail boundary exclusive
check_missing_samples_Exclusive(th, expected_count, actual_count) ==
    IF expected_count = 0
    THEN QCCheck(1, "MISS-DATA", SKIP, None, Some(th.missing_warn), Some(th.missing_fail),
                 "No expected count provided", None)
    ELSE LET raw == 100 * (expected_count - actual_count)
             num == Max(0, IF expected_count > 0 THEN raw ELSE -raw)
             den == Abs(expected_count)
             status == IF 10 * num > th.missing_fail * den THEN FAIL
                       ELSE IF PctGE(num, den, th.missing_warn) THEN WARN
                       ELSE PASS
         IN  QCCheck(1, "MISS-DATA", status, <<num, den>>,
                     Some(th.missing_warn), Some(th.missing_fail), "samples missing", None)

(***************************************************************************)
(* QCEngine.check_missing_samples (qc_engine.py:121-170).                  *)
(* missing_pct = max(0, 100.0 * (expected - actual) / expected), kept as   *)
(* the fraction <<num, den>> with den > 0.                                 *)
(***************************************************************************)
check_missing_samples(th, expected_count, actual_count) ==
    IF expected_count = 0
    THEN QCCheck(1, "MISS-DATA", SKIP, None, Some(th.missing_warn), Some(th.missing_fail),
                 "No expected count provided", None)
    ELSE LET raw == 100 * (expected_count - actual_count)
             num == Max(0, IF expected_count > 0 THEN raw ELSE -raw)
             den == Abs(expected_count)
             status == IF PctGE(num, den, th.missing_fail) THEN FAIL
                       ELSE IF PctGE(num, den, th.missing_warn) THEN WARN
                       ELSE PASS
             details == CASE status = FAIL -> "samples missing - data may be unusable"
                          [] status = WARN -> "samples missing - verify data quality"
                          [] OTHER -> "samples missing - within tolerance"
         IN  QCCheck(1, "MISS-DATA", status, <<num, den>>,
                     Some(th.missing_warn), Some(th.missing_fail), details, None)

(***************************************************************************)
(* QCEngine.check_spikes (qc_engine.py:172-224).                           *)
(***************************************************************************)
check_spikes(th, spike_count, total_samples, channel_id) ==
    IF total_samples = 0
    THEN QCCheck(2, "SPIKE-DET", SKIP, None, Some(th.spike_warn), Some(th.spike_fail),
                 "No samples to check", Some(channel_id))
    ELSE LET status == IF PctGE(100 * spike_count, total_samples, th.spike_fail)
                       THEN FAIL
                       ELSE IF PctGE(100 * spike_count, total_samples, th.spike_warn)
                       THEN WARN
                       ELSE PASS
             details == CASE status = FAIL -> "spikes detected - sensor issue"
                          [] status = WARN -> "spikes detected - review sensor calibration"
                          [] OTHER -> "spikes detected - within tolerance"
         IN  QCCheck(2, "SPIKE-DET", status, <<100 * spike_count, total_samples>>,
                     Some(th.spike_warn), Some(th.spike_fail), details,
                     Some(channel_id))

(***************************************************************************)
(* QCEngine.check_flatline (qc_engine.py:226-296).                         *)
(***************************************************************************)
\* the loop of qc_engine.py:261-268 over is_constant = (|diff| < 1e-10),
\* from index i on, with the loop's current_run and max_run
RECURSIVE LongestRun(_, _, _, _)
LongestRun(diff, i, current_run, max_run) ==
    IF i > Len(diff) THEN max_run
    ELSE IF diff[i] = 0
         THEN LongestRun(diff, i + 1, current_run + 1, Max(max_run, current_run + 1))
         ELSE LongestRun(diff, i + 1, 0, max_run)

\* max_duration doubled, in milliseconds: max_run * median(diff(timestamps))
FlatlineDuration2(timestamps, values) ==
    IF Len(timestamps) > 1
    THEN LongestRun(Diff(values), 1, 0, 0) * Median2(Diff(timestamps))
    ELSE 0

check_flatline(th, timestamps, values, channel_id) ==
    IF Len(values) < 10
    THEN QCCheck(3, "FLAT-DET", SKIP, None, None, Some(th.flatline_duration),
                 "Insufficient data for flatline check", Some(channel_id))
    ELSE LET d2 == FlatlineDuration2(timestamps, values)
             status == IF d2 >= 2 * th.flatline_duration THEN FAIL ELSE PASS
             details == IF status = FAIL
                        THEN "Flatline detected - sensor failure"
                        ELSE "No significant flatlines detected"
         IN  QCCheck(3, "FLAT-DET", status, <<d2, 2>>, None,
                     Some(th.flatline_duration), details, Some(channel_id))

(***************************************************************************)
(* QCEngine.check_timestamp_gaps (qc_engine.py:298-354).                   *)
(***************************************************************************)
\* check_timestamp_gaps counting every interval of 2 * expected_dt or more
check_timestamp_gaps_Inclusive(timestamps, expected_dt) ==
    IF Len(timestamps) < 2
    THEN QCCheck(4, "TS-GAP", SKIP, None, None, None,
                 "Insufficient timestamps for gap check", None)
    ELSE LET gap_threshold == expected_dt * 2
             num_gaps == CountAbove(Diff(timestamps), gap_threshold - 1)
             status == IF num_gaps > 5 THEN FAIL
                       ELSE IF num_gaps > 0 THEN WARN
                       ELSE PASS
             details == CASE status = FAIL -> "gaps found - check network/DAQ"
                          [] status = WARN -> "gaps found"
                          [] OTHER -> "No timestamp gaps detected"
         IN  QCCheck(4, "TS-GAP", status, <<num_gaps, 1>>, Some(1), Some(5), details, None)

\* check_timestamp_gaps counting every interval above expected_dt
check_timestamp_gaps_OneDt(timestamps, expected_dt) ==
    IF Len(timestamps) < 2
    THEN QCCheck(4, "TS-GAP", SKIP, None, None, None,
                 "Insufficient timestamps for gap check", None)
    ELSE LET gap_threshold == expected_dt
             num_gaps == CountAbove(Diff(timestamps), gap_threshold)
             status == IF num_gaps > 5 THEN FAIL
                       ELSE IF num_gaps > 0 THEN WARN
                       ELSE PASS
             details == CASE status = FAIL -> "gaps found - check network/DAQ"
                          [] status = WARN -> "gaps found"
                          [] OTHER -> "No timestamp gaps detected"
         IN  QCCheck(4, "TS-GAP", status, <<num_gaps, 1>>, Some(1), Some(5), details, None)

check_timestamp_gaps(timestamps, expected_dt) ==
    IF Len(timestamps) < 2
    THEN QCCheck(4, "TS-GAP", SKIP, None, None, None,
                 "Insufficient timestamps for gap check", None)
    ELSE LET gap_threshold == expected_dt * 2
             num_gaps == CountAbove(Diff(timestamps), gap_threshold)
             status == IF num_gaps > 5 THEN FAIL
                       ELSE IF num_gaps > 0 THEN WARN
                       ELSE PASS
             details == CASE status = FAIL -> "gaps found - check network/DAQ"
                          [] status = WARN -> "gaps found"
                          [] OTHER -> "No timestamp gaps detected"
         IN  QCCheck(4, "TS-GAP", status, <<num_gaps, 1>>, Some(1), Some(5), details, None)

(***************************************************************************)
(* QCEngine.run_all_checks (qc_engine.py:475-536).                         *)
(* channel_data is a dict in insertion order: a sequence of records        *)
(* [id, t, v] with distinct ids.  spike_counts is None or a dict from      *)
(* a set of channel ids to counts: [none |-> TRUE, ...] or                 *)
(* [none |-> FALSE, counts |-> the dict].                                  *)
(***************************************************************************)
\* `if spike_counts and channel_id in spike_counts` (qc_engine.py:507)
HasSpikeCount(spike_counts, channel_id) ==
    /\ ~spike_counts.none
    /\ DOMAIN spike_counts.counts # {}
    /\ channel_id \in DOMAIN spike_counts.counts

\* the per-channel loop body with the timestamp-gap check run for every channel
ChannelChecks_GapEveryChannel(th, channel_data, i, s, spike_counts, expected_dt) ==
    LET ch == channel_data[i]
        s2 == IF HasSpikeCount(spike_counts, ch.id)
              THEN add_check(s, check_spikes(th, spike_counts.counts[ch.id],
                                             Len(ch.v), ch.id))
              ELSE s
        s3 == add_check(s2, check_flatline(th, ch.t, ch.v, ch.id))
    IN  add_check(s3, check_timestamp_gaps(ch.t, expected_dt))

\* the body of the per-channel loop (qc_engine.py:504-525) for channel i
ChannelChecks(th, channel_data, i, s, spike_counts, expected_dt) ==
    LET ch == channel_data[i]
        s2 == IF HasSpikeCount(spike_counts, ch.id)
              THEN add_check(s, check_spikes(th, spike_counts.counts[ch.id],
                                             Len(ch.v), ch.id))
              ELSE s
        s3 == add_check(s2, check_flatline(th, ch.t, ch.v, ch.id))
    IN  IF ch.id = channel_data[1].id
        THEN add_check(s3, check_timestamp_gaps(ch.t, expected_dt))
        ELSE s3

RECURSIVE PerChannel(_, _, _, _, _, _)
PerChannel(th, channel_data, i, s, spike_counts, expected_dt) ==
    IF i > Len(channel_data) THEN s
    ELSE PerChannel(th, channel_data, i + 1,
                    ChannelChecks(th, channel_data, i, s, spike_counts, expected_dt),
                    spike_counts, expected_dt)

\* qc_engine.py:527-533 with a single entry appended for a failure
Recommend_OnePerKind(s) ==
    LET r1 == IF s.failed_checks > 0
              THEN <<"Review sensor connections and calibration">>
              ELSE <<>>
        r2 == IF s.warning_checks > 0
              THEN <<"Data may require manual review before use">>
              ELSE <<>>
    IN  [s EXCEPT !.recommendations = @ \o r1 \o r2]

\* the recommendations appended at qc_engine.py:527-533
Recommend(s) ==
    LET r1 == IF s.failed_checks > 0
              THEN <<"Review sensor connections and calibration",
                     "Consider repeating test if critical data affected">>
              ELSE <<>>
        r2 == IF s.warning_checks > 0
              THEN <<"Data may require manual review before use">>
              ELSE <<>>
    IN  [s EXCEPT !.recommendations = @ \o r1 \o r2]

run_all_checks(th, channel_data, expected_count, actual_count, spike_counts, expected_dt) ==
    LET s1 == add_check(NewSummary(PASS),
                        check_missing_samples(th, expected_count, actual_count))
        s2 == PerChannel(th, channel_data, 1, s1, spike_counts, expected_dt)
    IN  finalize(Recommend(s2))

(***************************************************************************)
(* Inputs of the QC operations.                                            *)
(***************************************************************************)
\* a uniform time axis of n points dt milliseconds apart
Axis(n, dt) == [i \in 1..n |-> (i - 1) * dt]

\* n pairwise different values
Ramp(n) == [i \in 1..n |-> i]

\* pre different values, then one value held for run samples, then post
\* different values; no other two consecutive values are equal
Stuck(pre, run, post) ==
    [i \in 1..(pre + run + post) |->
        IF i <= pre THEN i ELSE IF i <= pre + run THEN pre + 1 ELSE i + 1]

\* a 10 ms axis of n points with `extra` milliseconds lost after point k
Gappy(n, k, extra) == [i \in 1..n |-> (i - 1) * 10 + (IF i > k THEN extra ELSE 0)]

QCSeries ==
    { [t |-> <<>>, v |-> <<>>],
      [t |-> Axis(3, 10), v |-> Ramp(3)],
      [t |-> Axis(12, 10), v |-> Ramp(12)],
      [t |-> Axis(12, 200), v |-> Stuck(3, 6, 3)],
      [t |-> Gappy(12, 6, 50), v |-> Ramp(12)] }

ChannelIds == {1, 2, 3}

\* the key orders of the dicts of at most MaxChannels channels
IdSeqs ==
    UNION { { ids \in [1..n -> ChannelIds] :
                \A i, j \in 1..n : i # j => ids[i] # ids[j] }
            : n \in 0..MaxChannels }

ChannelData ==
    UNION { { [i \in 1..Len(ids) |->
                 [id |-> ids[i], t |-> ser[i].t, v |-> ser[i].v]]
              : ser \in [1..Len(ids) -> QCSeries] }
            : ids \in IdSeqs }

\* spike_counts: absent, or a dict giving some channels a count
SpikeCounts ==
    { [none |-> TRUE, counts |-> <<>>] }
    \cup { [none |-> FALSE, counts |-> f] :
             f \in UNION { [S -> {c}] : S \in {{}, {1}, {2, 3}, ChannelIds},
                                          c \in {0, 1} } }

\* <<expected_sample_count, actual_sample_count>>
CountPairs == { <<0, 0>>, <<100, 100>>, <<100, 98>>, <<1000, 950>> }

ExpectedCounts == (0..MaxCount) \cup {100, 1000}
ActualCounts == (0..MaxCount) \cup {94, 95, 96, 98, 99, 100, 949, 950, 951, 990, 991, 1001}

\* threshold overrides given to QCEngine(...)
ThresholdOverrides ==
    { <<>>,
      [missing_warn |-> 20, missing_fail |-> 20],
      [flatline_duration |-> 500] }

\* the timestamp-gap inputs: after a first timestamp, `gaps` long intervals
\* and then short ones, MaxIntervals at most
RECURSIVE Cumulate(_)
Cumulate(intervals) ==
    IF intervals = <<>> THEN <<0>>
    ELSE LET t == Cumulate(SubSeq(intervals, 1, Len(intervals) - 1))
         IN  Append(t, t[Len(t)] + intervals[Len(intervals)])

GapTimestamps ==
    { <<>> }
    \cup { Cumulate([i \in 1..n |-> IF i <= gaps THEN long ELSE short])
           : n \in 0..MaxIntervals, gaps \in 0..MaxIntervals,
             long \in {21, 41, 50}, short \in {10, 20, 40} }

GapDt == {10, 20}

\* the flatline inputs: a run of stuck samples inside a changing signal
FlatPre == {0, 5}
FlatRun == {0, 1, 2, 50, 51, 99, 100, 101}
FlatDt == {10, 20}

(***************************************************************************)
(* The QCSummary object under add_check and finalize.                      *)
(***************************************************************************)
SampleChecks ==
    { QCCheck(1, "MISS-DATA", st, None, Some(10), Some(50), "samples missing", None)
        : st \in QCStatus }
    \cup
    { QCCheck(3, "FLAT-DET", st, None, None, Some(1000), "flatline", Some(1))
        : st \in QCStatus }

NoCall == [op |-> "none"]

RunIds == {1, 2}

\* a database nothing was saved to, and no save_results call
EmptyDatabase ==
    [run_statistics |-> <<>>, qc_summaries |-> <<>>, qc_results |-> <<>>,
     qc_rules |-> <<>>, runs |-> [r \in RunIds |-> 3],
     rules_insertable |-> TRUE, now |-> 0]

NoSave == [pc |-> "idle", saves |-> 0, last |-> None]

\* AeroCalculator() (aero_metrics.py:72-86): reference_area 1.0, wheelbase 3.6
\* and scale_factor 0.6, as fractions
DefaultAeroCalculator ==
    [reference_area |-> <<1, 1>>, wheelbase |-> <<18, 5>>, scale_factor |-> <<3, 5>>]

\* the RunProcessor objects and the process_from_samples invocations that can
\* be in progress at one time
Instances == {1, 2}
Frames == {1, 2}

\* no RunProcessor created, and no invocation in progress
NoProcessors == [p \in Instances |-> None]
IdleFrame == [pc |-> "idle"]
NoFrames == [f \in Frames |-> IdleFrame]

\* an empty topic, and a SensorDataConsumer that was not started
NoBroker == [log |-> <<>>, position |-> 0, committed |-> 0]
NoConsumer ==
    [pc |-> "idle", running |-> FALSE, batch_size |-> 1, max_messages |-> None,
     buffer |-> [r \in RunIds |-> <<>>], messages_processed |-> 0, records |-> <<>>]

\* a demo request nobody has dealt with, and the helper not called
NoRequest == [status |-> "pending", run_id |-> None]
NoHelper == [pc |-> "idle"]

\* the clients that call create_run, none of them in a call
Clients == {1, 2}
NoCreators == [c \in Clients |-> [pc |-> "idle"]]

\* Resampler() (resampler.py:19)
DefaultResampler == [target_hz |-> 100]

\* the default Despiker of the pipeline (processor.py:100, despiker.py:37-42)
DefaultDespiker ==
    [threshold |-> [num |-> 7, den |-> 2], window_size |-> None,
     replace_method |-> "interpolate"]

SummaryInit ==
    /\ summary = NewSummary(PASS)
    /\ finalized = FALSE
    /\ thresholds = DEFAULT_THRESHOLDS
    /\ call = NoCall
    /\ despiker = DefaultDespiker
    /\ dcall = NoCall
    /\ resampler = DefaultResampler
    /\ rcall = NoCall
    /\ db = EmptyDatabase
    /\ save = NoSave
    /\ acalc = DefaultAeroCalculator
    /\ acall = NoCall
    /\ class_thresholds = DEFAULT_THRESHOLDS
    /\ procs = NoProcessors
    /\ frames = NoFrames
    /\ broker = NoBroker
    /\ consumer = NoConsumer
    /\ sample_rows = {}
    /\ run_rows = <<>>
    /\ creators = NoCreators
    /\ request = NoRequest
    /\ helper = NoHelper

AddCheck ==
    /\ Len(summary.checks) < MaxChecks
    /\ \E check \in SampleChecks : summary' = add_check(summary, check)
    /\ finalized' = FALSE
    /\ UNCHANGED <<thresholds, call>>
    /\ UNCHANGED notQC

Finalize ==
    /\ ~finalized
    /\ summary' = finalize(summary)
    /\ finalized' = TRUE
    /\ UNCHANGED <<thresholds, call>>
    /\ UNCHANGED notQC

(***************************************************************************)
(* The QCEngine: a caller constructs it, calls one of its methods, takes   *)
(* the result and comes back for the next call.                            *)
(***************************************************************************)
EngineInit ==
    /\ summary = NewSummary(PASS)
    /\ finalized = FALSE
    /\ thresholds \in { QCEngineInit(o) : o \in ThresholdOverrides }
    /\ call = NoCall
    /\ despiker = DefaultDespiker
    /\ dcall = NoCall
    /\ resampler = DefaultResampler
    /\ rcall = NoCall
    /\ db = EmptyDatabase
    /\ save = NoSave
    /\ acalc = DefaultAeroCalculator
    /\ acall = NoCall
    /\ class_thresholds = DEFAULT_THRESHOLDS
    /\ procs = NoProcessors
    /\ frames = NoFrames
    /\ broker = NoBroker
    /\ consumer = NoConsumer
    /\ sample_rows = {}
    /\ run_rows = <<>>
    /\ creators = NoCreators
    /\ request = NoRequest
    /\ helper = NoHelper

RunAllChecks ==
    /\ call.op = "none"
    /\ \E cd \in ChannelData, cp \in CountPairs, sc \in SpikeCounts, dt \in {10, 200} :
          call' = [op |-> "run_all_checks", channel_data |-> cd,
                   expected |-> cp[1], actual |-> cp[2],
                   spike_counts |-> sc, expected_dt |-> dt,
                   result |-> run_all_checks(thresholds, cd, cp[1], cp[2], sc, dt)]
    /\ UNCHANGED <<summary, finalized, thresholds>>
    /\ UNCHANGED notQC

CheckMissingSamples ==
    /\ call.op = "none"
    /\ \E e \in ExpectedCounts, a \in ActualCounts :
          call' = [op |-> "check_missing_samples", expected |-> e, actual |-> a,
                   result |-> check_missing_samples(thresholds, e, a)]
    /\ UNCHANGED <<summary, finalized, thresholds>>
    /\ UNCHANGED notQC

CheckFlatline ==
    /\ call.op = "none"
    /\ \E pre \in FlatPre, run \in FlatRun, post \in FlatPre, dt \in FlatDt :
          LET v == Stuck(pre, run, post)
              t == Axis(Len(v), dt)
          IN  call' = [op |-> "check_flatline", t |-> t, v |-> v,
                       run |-> run, dt |-> dt,
                       result |-> check_flatline(thresholds, t, v, 1)]
    /\ UNCHANGED <<summary, finalized, thresholds>>
    /\ UNCHANGED notQC

CheckTimestampGaps ==
    /\ call.op = "none"
    /\ \E timestamps \in GapTimestamps, expected_dt \in GapDt :
          call' = [op |-> "check_timestamp_gaps", timestamps |-> timestamps,
                   expected_dt |-> expected_dt,
                   result |-> check_timestamp_gaps(timestamps, expected_dt)]
    /\ UNCHANGED <<summary, finalized, thresholds>>
    /\ UNCHANGED notQC

Return ==
    /\ call.op # "none"
    /\ call' = NoCall
    /\ UNCHANGED <<summary, finalized, thresholds>>
    /\ UNCHANGED notQC

(***************************************************************************)
(* Despiker (despiker.py:23-196).                                          *)
(*                                                                         *)
(* A Despiker is [threshold, window_size, replace_method]; threshold is    *)
(* the fraction [num, den].  Values are integers; calculate_mad returns    *)
(* the median doubled (median2) and the MAD times four (mad4), so every    *)
(* comparison below is exact.  NaN stands for np.nan: a median over data   *)
(* holding NaN is NaN, and every comparison with NaN is false.             *)
(***************************************************************************)
MAD_SCALE_NUM == 14826     \* MAD_SCALE = 1.4826 = MAD_SCALE_NUM / MAD_SCALE_DEN
MAD_SCALE_DEN == 10000

NaN == 0 - 1000000000

RECURSIVE Gcd(_, _)
Gcd(a, b) == IF b = 0 THEN a ELSE Gcd(b, a % b)

\* threshold * MAD_SCALE as the reduced fraction BoundNum / BoundDen
BoundNum(d) ==
    (d.threshold.num * MAD_SCALE_NUM)
        \div Gcd(d.threshold.num * MAD_SCALE_NUM, d.threshold.den * MAD_SCALE_DEN)
BoundDen(d) ==
    (d.threshold.den * MAD_SCALE_DEN)
        \div Gcd(d.threshold.num * MAD_SCALE_NUM, d.threshold.den * MAD_SCALE_DEN)

HasNaN(data) == \E i \in 1..Len(data) : data[i] = NaN

\* Despiker.calculate_mad (despiker.py:59-71)
calculate_mad(data) ==
    IF Len(data) = 0 \/ HasNaN(data)
    THEN [nan |-> TRUE, median2 |-> 0, mad4 |-> 0]
    ELSE LET m2 == Median2(data)
         IN  [nan |-> FALSE, median2 |-> m2,
              mad4 |-> Median2([i \in 1..Len(data) |-> Abs(2 * data[i] - m2)])]

\* the comparison of despiker.py:95 and :113 with the bounds included
OutOfBounds_Inclusive(d, x, m) ==
    /\ ~m.nan
    /\ x # NaN
    /\ \/ 2 * BoundDen(d) * (m.median2 - 2 * x) >= BoundNum(d) * m.mad4
       \/ 2 * BoundDen(d) * (2 * x - m.median2) >= BoundNum(d) * m.mad4

\* x < lower or x > upper, for lower, upper = median -+ threshold*mad*MAD_SCALE
\* (despiker.py:93-95 and :110-113)
OutOfBounds(d, x, m) ==
    /\ ~m.nan
    /\ x # NaN
    /\ \/ 2 * BoundDen(d) * (m.median2 - 2 * x) > BoundNum(d) * m.mad4
       \/ 2 * BoundDen(d) * (2 * x - m.median2) > BoundNum(d) * m.mad4

\* values[start:end] of the rolling window of index i (1-based here)
Window(d, values, i) ==
    LET half_window == d.window_size[1] \div 2
        start == Max(0, (i - 1) - half_window)
        end == Min(Len(values), (i - 1) + half_window + 1)
    IN  SubSeq(values, start + 1, end)

\* Despiker.detect_spikes with a sample on a bound flagged as well
detect_spikes_Inclusive(d, values) ==
    IF d.window_size = None
    THEN LET m == calculate_mad(values)
         IN  IF ~m.nan /\ m.mad4 = 0
             THEN [i \in 1..Len(values) |-> FALSE]
             ELSE [i \in 1..Len(values) |-> OutOfBounds_Inclusive(d, values[i], m)]
    ELSE [i \in 1..Len(values) |->
            LET m == calculate_mad(Window(d, values, i))
            IN  IF ~m.nan /\ m.mad4 = 0 THEN FALSE
                ELSE OutOfBounds_Inclusive(d, values[i], m)]

\* Despiker.detect_spikes without the `mad == 0` guards
detect_spikes_NoZeroGuard(d, values) ==
    IF d.window_size = None
    THEN LET m == calculate_mad(values)
         IN  [i \in 1..Len(values) |-> OutOfBounds(d, values[i], m)]
    ELSE [i \in 1..Len(values) |->
            OutOfBounds(d, values[i], calculate_mad(Window(d, values, i)))]

\* Despiker.detect_spikes (despiker.py:73-116)
detect_spikes(d, values) ==
    IF d.window_size = None
    THEN LET m == calculate_mad(values)
         IN  IF ~m.nan /\ m.mad4 = 0
             THEN [i \in 1..Len(values) |-> FALSE]
             ELSE [i \in 1..Len(values) |-> OutOfBounds(d, values[i], m)]
    ELSE [i \in 1..Len(values) |->
            LET m == calculate_mad(Window(d, values, i))
            IN  IF ~m.nan /\ m.mad4 = 0 THEN FALSE
                ELSE OutOfBounds(d, values[i], m)]

\* the indices (1-based) whose mask entry is b, in increasing order
Where(mask, b) ==
    LET Test(i) == mask[i] = b
    IN  SelectSeq([i \in 1..Len(mask) |-> i], Test)

\* np.interp(t, xp, fp) for increasing xp: linear between the neighbours,
\* the end value outside [xp[1], xp[Len(xp)]]
Interp(t, xp, fp) ==
    IF t <= xp[1] THEN fp[1]
    ELSE IF t >= xp[Len(xp)] THEN fp[Len(xp)]
    ELSE LET k == CHOOSE j \in 1..(Len(xp) - 1) : xp[j] <= t /\ t < xp[j + 1]
         IN  fp[k] + ((fp[k + 1] - fp[k]) * (t - xp[k])) \div (xp[k + 1] - xp[k])

\* np.median of a sequence of even integers; NaN for an empty one
MedianOf(data) ==
    IF Len(data) = 0 \/ HasNaN(data) THEN NaN ELSE Median2(data) \div 2

KnownMethods == {"interpolate", "median", "nan"}

\* Despiker.replace_spikes with the replacement written to every sample once
\* a spike is flagged
replace_spikes_All(d, timestamps, values, spike_mask) ==
    LET good == Where(spike_mask, FALSE)
        Values(idx) == [k \in 1..Len(idx) |-> values[idx[k]]]
        Put(x) == [i \in 1..Len(values) |-> x]
    IN  IF \A i \in 1..Len(values) : ~spike_mask[i]
        THEN [raised |-> FALSE, cleaned |-> values]
        ELSE IF d.replace_method = "nan"
        THEN [raised |-> FALSE, cleaned |-> Put(NaN)]
        ELSE IF d.replace_method \in {"median", "interpolate"}
        THEN [raised |-> FALSE, cleaned |-> Put(MedianOf(Values(good)))]
        ELSE [raised |-> TRUE, cleaned |-> <<>>]

\* Despiker.replace_spikes (despiker.py:118-165): [raised, cleaned]
replace_spikes(d, timestamps, values, spike_mask) ==
    LET good == Where(spike_mask, FALSE)
        Values(idx) == [k \in 1..Len(idx) |-> values[idx[k]]]
        Times(idx) == [k \in 1..Len(idx) |-> timestamps[idx[k]]]
        Put(x(_)) == [i \in 1..Len(values) |-> IF spike_mask[i] THEN x(i) ELSE values[i]]
        ToNaN(i) == NaN
        ToGoodMedian(i) == MedianOf(Values(good))
        ToMedian(i) == MedianOf(values)
        ToInterp(i) == Interp(timestamps[i], Times(good), Values(good))
    IN  IF \A i \in 1..Len(values) : ~spike_mask[i]
        THEN [raised |-> FALSE, cleaned |-> values]
        ELSE IF d.replace_method = "nan"
        THEN [raised |-> FALSE, cleaned |-> Put(ToNaN)]
        ELSE IF d.replace_method = "median"
        THEN [raised |-> FALSE, cleaned |-> Put(ToGoodMedian)]
        ELSE IF d.replace_method = "interpolate"
        THEN IF Len(good) < 2
             THEN [raised |-> FALSE, cleaned |-> Put(ToMedian)]
             ELSE [raised |-> FALSE, cleaned |-> Put(ToInterp)]
        ELSE [raised |-> TRUE, cleaned |-> <<>>]

\* Despiker.despike (despiker.py:167-196): a DespikeResult, or raised
despike(d, timestamps, values) ==
    LET spike_mask == detect_spikes(d, values)
        r == replace_spikes(d, timestamps, values, spike_mask)
        bad == Where(spike_mask, TRUE)
    IN  [raised |-> r.raised, original |-> values, cleaned |-> r.cleaned,
         spike_mask |-> spike_mask, spike_count |-> Len(bad),
         spike_pct |-> IF Len(values) > 0 THEN <<100 * Len(bad), Len(values)>>
                       ELSE <<0, 1>>,
         spike_indices |-> [k \in 1..Len(bad) |-> bad[k] - 1]]

(***************************************************************************)
(* Inputs of the Despiker.                                                 *)
(***************************************************************************)
RECURSIVE Lcm(_)
\* the least common multiple of 1..n
Lcm(n) == IF n <= 1 THEN 1 ELSE (Lcm(n - 1) * n) \div Gcd(Lcm(n - 1), n)

\* one unit of a sample value: interpolating twice between samples at most
\* MaxLen - 1 steps apart stays within the integers
Unit == Lcm(MaxLen - 1) * Lcm(MaxLen - 1)

SampleValues == {0, 1, 2, 4}

\* the series of at most MaxLen samples
SampleSeries ==
    UNION { [1..n -> { x * Unit : x \in SampleValues }] : n \in 0..MaxLen }

\* the default Despiker of the pipeline is the first one; TwoMads is the
\* threshold for which threshold * MAD_SCALE = 2, OneMad the one for which
\* it is 1
DefaultThreshold == DefaultDespiker.threshold
TwoMads == [num |-> 2 * MAD_SCALE_DEN, den |-> MAD_SCALE_NUM]
OneMad == [num |-> MAD_SCALE_DEN, den |-> MAD_SCALE_NUM]
Despikers ==
    { [threshold |-> DefaultThreshold, window_size |-> None, replace_method |-> m]
        : m \in KnownMethods \cup {"spline"} }
    \cup
    { [threshold |-> TwoMads, window_size |-> w, replace_method |-> "interpolate"]
        : w \in {None, Some(3)} }
    \cup
    { [threshold |-> OneMad, window_size |-> None, replace_method |-> "interpolate"] }

(***************************************************************************)
(* The Despiker and its caller: despike(timestamps, values) on the uniform *)
(* 100 Hz axis, then despike again on the cleaned values.                  *)
(***************************************************************************)
DespikerInit ==
    /\ despiker \in Despikers
    /\ dcall = NoCall
    /\ summary = NewSummary(PASS)
    /\ finalized = FALSE
    /\ thresholds = DEFAULT_THRESHOLDS
    /\ call = NoCall
    /\ resampler = DefaultResampler
    /\ rcall = NoCall
    /\ db = EmptyDatabase
    /\ save = NoSave
    /\ acalc = DefaultAeroCalculator
    /\ acall = NoCall
    /\ class_thresholds = DEFAULT_THRESHOLDS
    /\ procs = NoProcessors
    /\ frames = NoFrames
    /\ broker = NoBroker
    /\ consumer = NoConsumer
    /\ sample_rows = {}
    /\ run_rows = <<>>
    /\ creators = NoCreators
    /\ request = NoRequest
    /\ helper = NoHelper

Despike ==
    /\ dcall.op = "none"
    /\ \E values \in SampleSeries :
          dcall' = [op |-> "despike", values |-> values,
                    first |-> despike(despiker, Axis(Len(values), 10), values)]
    /\ UNCHANGED despiker
    /\ UNCHANGED notDespiker

DespikeAgain ==
    /\ dcall.op = "despike"
    /\ ~dcall.first.raised
    /\ dcall' = [op |-> "despike_again", values |-> dcall.values,
                 first |-> dcall.first,
                 second |-> despike(despiker, Axis(Len(dcall.values), 10),
                                    dcall.first.cleaned)]
    /\ UNCHANGED despiker
    /\ UNCHANGED notDespiker

DespikeReturn ==
    /\ dcall.op # "none"
    /\ dcall' = NoCall
    /\ UNCHANGED despiker
    /\ UNCHANGED notDespiker

-----------------------------------------------------------------------------
\* Resampler (src/src/processing/resampler.py).  Times are whole
\* milliseconds; a point of a computed axis and an interpolated value are
\* exact fractions <<numerator, denominator>> with a positive denominator.

\* max(...) and min(...) of a non-empty collection
SetMax(S) == CHOOSE x \in S : \A y \in S : y <= x
SetMin(S) == CHOOSE x \in S : \A y \in S : x <= y

Frac(n, d) ==
    LET g == Gcd(Abs(n), d) IN IF g = 0 THEN <<n, d>> ELSE <<n \div g, d \div g>>

FracLess(a, b) == a[1] * b[2] < b[1] * a[2]

\* int(x) of Python for x = n/d, d > 0: truncation toward zero
TruncDiv(n, d) == IF n >= 0 THEN n \div d ELSE 0 - ((0 - n) \div d)

\* Resampler.__init__ (resampler.py:19-27)
NewResampler(target_hz) == [target_hz |-> target_hz]

\* the values int((t_end - t_start) * self.target_hz) + 1 can take
\* (resampler.py:52, 176).  The product is a double: when the exact product
\* is a whole number other than 0 the rounded product is that number or a
\* double just inside it, which truncates to the whole number one nearer
\* to zero; every other product of the millisecond grid is at least 1/1000
\* away from a whole number and truncates as the exact product does.
n_samples(r, t_start, t_end) ==
    LET x == (t_end - t_start) * r.target_hz
        n == TruncDiv(x, 1000) + 1
    IN  IF x % 1000 = 0 /\ x # 0
        THEN {n, IF x > 0 THEN n - 1 ELSE n + 1}
        ELSE {n}

\* np.linspace(start, stop, num) for num >= 0 (num < 0 raises ValueError)
linspace(start, stop, num) ==
    IF num = 1 THEN << Frac(start, 1) >>
    ELSE [i \in 1..num |->
            Frac(start * (num - 1) + (i - 1) * (stop - start), num - 1)]

\* the segment of the axis `times` used for x by a linear interp1d with
\* fill_value='extrapolate': the segment holding x, the first segment below
\* the axis and the last one above it
Segment(times, x) ==
    LET inside == { j \in 1..(Len(times) - 1) : ~FracLess(x, <<times[j], 1>>) }
    IN  IF inside = {} THEN 1 ELSE SetMax(inside)

\* interpolate.interp1d(times, values, kind='linear',
\* fill_value='extrapolate')(x) (resampler.py:182-188)
interp1d(times, values, x) ==
    LET j == Segment(times, x)
        dt == times[j + 1] - times[j]
        dv == values[j + 1] - values[j]
    IN  Frac(values[j] * x[2] * dt + dv * (x[1] - times[j] * x[2]), x[2] * dt)

\* x lies outside the range the channel was measured on
Extrapolated(times, x) ==
    FracLess(x, <<times[1], 1>>) \/ FracLess(<<times[Len(times)], 1>>, x)

\* the least number of points interpolate.interp1d(kind='linear') accepts:
\* 2 in the SciPy releases that refuse a single point with a ValueError, 1
\* in the releases that accept it.  No release is pinned by the repository.
Interp1dMinEntries == {1, 2}

\* interp1d(times, values, kind='linear', fill_value='extrapolate')(x) for
\* a channel of any length: through a single point the slope is 0/0 and
\* every value is nan
interp1d_any(times, values, x) ==
    IF Len(times) < 2 THEN <<0, 0>> ELSE interp1d(times, values, x)

\* Resampler.align_channels (resampler.py:156-192) with the sample count
\* num and an interp1d that needs min_entries points: raised, or
\* (common_time, aligned)
align_with(resampled_data, t_start, t_end, num, min_entries) ==
    IF num < 0 \/ \E c \in DOMAIN resampled_data : Len(resampled_data[c].times) < min_entries
    THEN [raised |-> TRUE, common_time |-> <<>>, aligned |-> <<>>]
    ELSE LET common_time == linspace(t_start, t_end, num)
         IN  [raised |-> FALSE,
              common_time |-> common_time,
              aligned |-> [c \in DOMAIN resampled_data |->
                  [i \in 1..Len(common_time) |->
                      interp1d_any(resampled_data[c].times, resampled_data[c].values,
                                   common_time[i])]]]

\* Resampler.align_channels (resampler.py:156-192): the results the call can
\* have, one for each value of the sample count and each interp1d
align_channels(r, resampled_data) ==
    IF DOMAIN resampled_data = {}
    THEN { [raised |-> FALSE, common_time |-> <<>>, aligned |-> <<>>] }
    ELSE LET t_start == SetMax({ resampled_data[c].times[1] : c \in DOMAIN resampled_data })
             t_end == SetMin({ resampled_data[c].times[Len(resampled_data[c].times)] :
                            c \in DOMAIN resampled_data })
         IN  { align_with(resampled_data, t_start, t_end, n, min_entries) :
               n \in n_samples(r, t_start, t_end), min_entries \in Interp1dMinEntries }

\* interpolate.interp1d(times, values, kind='nearest')(x): the value at the
\* sample nearest to x, the earlier one when two are equally near
nearest(times, values, x) ==
    LET Dist(j) == Abs(x[1] - times[j] * x[2])
        j == CHOOSE k \in 1..Len(times) :
                \A m \in 1..Len(times) :
                    Dist(k) < Dist(m) \/ (Dist(k) = Dist(m) /\ k <= m)
    IN  Frac(values[j], 1)

InterpolationMethods == {"linear", "cubic", "nearest"}

\* Resampler.resample_channel (resampler.py:29-84) with the sample count
\* num.  The value of the cubic spline at a point is not computed: it is
\* kept as the pair <<"cubic", point>>; interp1d refuses a cubic spline
\* through fewer than 4 points.
resample_with(timestamps, values, method, num) ==
    LET t_new == linspace(timestamps[1], timestamps[Len(timestamps)], num)
        Raised == [raised |-> TRUE, t_new |-> <<>>, v_new |-> <<>>]
    IN  CASE method = "linear" ->
               [raised |-> FALSE, t_new |-> t_new,
                v_new |-> [i \in 1..Len(t_new) |->
                              interp1d(timestamps, values, t_new[i])]]
          [] method = "cubic" ->
               IF Len(timestamps) < 4 THEN Raised
               ELSE [raised |-> FALSE, t_new |-> t_new,
                     v_new |-> [i \in 1..Len(t_new) |-> <<"cubic", t_new[i]>>]]
          [] method = "nearest" ->
               [raised |-> FALSE, t_new |-> t_new,
                v_new |-> [i \in 1..Len(t_new) |->
                              nearest(timestamps, values, t_new[i])]]
          [] OTHER -> Raised

\* Resampler.resample_channel (resampler.py:29-84) on increasing timestamps:
\* the results the call can have, one for each value of the sample count
resample_channel(r, timestamps, values, method) ==
    IF Len(timestamps) < 2
    THEN { [raised |-> FALSE,
            t_new |-> [i \in 1..Len(timestamps) |-> Frac(timestamps[i], 1)],
            v_new |-> [i \in 1..Len(values) |-> Frac(values[i], 1)]] }
    ELSE { resample_with(timestamps, values, method, n) :
           n \in n_samples(r, timestamps[1], timestamps[Len(timestamps)]) }

\* ---- inputs of the Resampler -------------------------------------------

\* target rates: the default (resampler.py:19) and half of it
TargetRates == {100, 50}

\* a channel as resample_channel returns it: an evenly spaced axis of
\* `periods` sample periods from t0 and the values of a line
Channel(r, t0, periods, slope) ==
    LET times == [i \in 1..(periods + 1) |-> t0 + (i - 1) * (1000 \div r.target_hz)]
    IN  [times |-> times,
         values |-> [i \in 1..(periods + 1) |-> 7 + slope * times[i]]]

\* where the channels start: channel 2 is half a period of the default rate
\* off the grid of channel 1, so the ranges of two channels never lie a whole
\* number of periods apart
ChannelStarts(c) == IF c = 1 THEN {0, 10, 30, 60} ELSE {5, 25, 45, 75}

Channels(r, c) ==
    { Channel(r, t0, k, m) : t0 \in ChannelStarts(c), k \in 1..MaxPeriods, m \in {0, 2} }

\* the dicts align_channels is called with: no channel, one, or two
ResampledData(r) ==
    {<<>>}
    \cup { (1 :> a) : a \in Channels(r, 1) }
    \cup { (1 :> a) @@ (2 :> b) : a \in Channels(r, 1), b \in Channels(r, 2) }

\* the instants raw samples are taken at, in milliseconds
SampleTimes == {0, 5, 10, 15, 25, 35}

\* raw timestamps of one channel, strictly increasing; a series of two or
\* more samples spans an odd multiple of 5 ms, which is never a whole number
\* of sample periods
RawTimestamps ==
    UNION { { t \in [1..n -> SampleTimes] :
                /\ \A i \in 1..(n - 1) : t[i] < t[i + 1]
                /\ n >= 2 => (t[n] - t[1]) % 10 = 5 }
            : n \in 0..MaxPoints }

\* the raw values at these timestamps: a constant, or a line
RawValues(t) == { [i \in 1..Len(t) |-> 7 + m * t[i]] : m \in {0, 2} }

\* the methods resample_channel is called with: the three it knows and one
\* it does not
Methods == InterpolationMethods \cup {"spline"}

ResamplerInit ==
    /\ resampler \in { NewResampler(hz) : hz \in TargetRates }
    /\ rcall = NoCall
    /\ summary = NewSummary(PASS)
    /\ finalized = FALSE
    /\ thresholds = DEFAULT_THRESHOLDS
    /\ call = NoCall
    /\ despiker = DefaultDespiker
    /\ dcall = NoCall
    /\ db = EmptyDatabase
    /\ save = NoSave
    /\ acalc = DefaultAeroCalculator
    /\ acall = NoCall
    /\ class_thresholds = DEFAULT_THRESHOLDS
    /\ procs = NoProcessors
    /\ frames = NoFrames
    /\ broker = NoBroker
    /\ consumer = NoConsumer
    /\ sample_rows = {}
    /\ run_rows = <<>>
    /\ creators = NoCreators
    /\ request = NoRequest
    /\ helper = NoHelper

AlignChannels ==
    /\ rcall.op = "none"
    /\ \E resampled_data \in ResampledData(resampler) :
       \E result \in align_channels(resampler, resampled_data) :
          rcall' = [op |-> "align_channels",
                    resampled_data |-> resampled_data,
                    result |-> result]
    /\ UNCHANGED resampler
    /\ UNCHANGED notResampler

ResampleChannel ==
    /\ rcall.op = "none"
    /\ \E timestamps \in RawTimestamps, method \in Methods :
       \E values \in RawValues(timestamps) :
       \E result \in resample_channel(resampler, timestamps, values, method) :
          rcall' = [op |-> "resample_channel",
                    timestamps |-> timestamps, values |-> values,
                    method |-> method, result |-> result]
    /\ UNCHANGED resampler
    /\ UNCHANGED notResampler

ResamplerReturn ==
    /\ rcall.op # "none"
    /\ rcall' = NoCall
    /\ UNCHANGED resampler
    /\ UNCHANGED notResampler

-----------------------------------------------------------------------------
\* Persistence of a ProcessingResult: RunProcessor.save_results
\* (src/src/processing/processor.py:245-327) over the tables written by
\* src/src/db/operations.py.  Every database call runs on a connection of
\* its own and commits before it returns (connection.py), so each call is
\* one step.  A joined string '; '.join(parts) is kept as its parts.

\* QCCheck.rule_name of the rule with this code (qc_engine.py:139-466)
rule_name(rule_code) ==
    CASE rule_code = "MISS-DATA" -> "Missing Data Check"
      [] rule_code = "SPIKE-DET" -> "Spike Detection"
      [] rule_code = "FLAT-DET" -> "Flatline Detection"
      [] rule_code = "TS-GAP" -> "Timestamp Gaps"
      [] rule_code = "STAB-CHK" -> "Stability Check"
      [] OTHER -> "Sensor Range Check"

\* ProcessingResult.to_statistics_dict (processor.py:49-67); a key the dict
\* lacks reads as None through stats.get
to_statistics_dict(result) ==
    LET a == result.aero_metrics
    IN  [total_samples |-> result.original_sample_count,
         valid_samples |-> result.processed_sample_count,
         spike_count |-> result.total_spikes,
         lift_mean |-> IF a = None THEN None ELSE Some(a[1].Cl_mean * 1530),
         lift_std |-> None,
         drag_mean |-> IF a = None THEN None ELSE Some(a[1].Cd_mean * 1530),
         drag_std |-> None,
         cl_mean |-> IF a = None THEN None ELSE Some(a[1].Cl_mean),
         cd_mean |-> IF a = None THEN None ELSE Some(a[1].Cd_mean),
         efficiency |-> IF a = None THEN None ELSE Some(a[1].efficiency_mean),
         aero_balance_pct |-> IF a = None THEN None ELSE Some(a[1].balance_mean)]

\* QCSummary.to_dict (qc_engine.py:72-83)
to_dict(s) ==
    [overall_status |-> s.overall_status,
     total_checks |-> s.total_checks,
     passed_checks |-> s.passed_checks,
     warning_checks |-> s.warning_checks,
     failed_checks |-> s.failed_checks,
     skipped_checks |-> s.skipped_checks,
     critical_issues |-> s.critical_issues,
     recommendations |-> s.recommendations]

\* the rows of a table whose run_id column is run_id
RowsOf(table, run_id) ==
    LET Test(row) == row.run_id = run_id IN SelectSeq(table, Test)

\* UPDATE table SET <the columns of row> WHERE run_id = ?
UpdateRow(table, run_id, row) ==
    [ i \in 1..Len(table) |->
        IF table[i].run_id = run_id
        THEN row @@ [key |-> table[i].key, run_id |-> run_id]
        ELSE table[i] ]

\* save_run_statistics (operations.py:402-448): update the row of the run if
\* there is one, insert it otherwise; the inserted row gets the next
\* identity and leaves computed_at to the table
save_run_statistics(d, run_id, stats) ==
    IF RowsOf(d.run_statistics, run_id) # <<>>
    THEN [d EXCEPT !.run_statistics =
            UpdateRow(@, run_id, [cols |-> stats, computed_at |-> Some(d.now)])]
    ELSE [d EXCEPT !.run_statistics =
            Append(@, [key |-> Len(@) + 1, run_id |-> run_id,
                       cols |-> stats, computed_at |-> None])]

\* save_qc_summary with every status but 'pass' rejecting the run
save_qc_summary_WarnRejects(d, run_id, sd) ==
    LET cols == [overall_status |-> sd.overall_status,
                 total_checks |-> sd.total_checks,
                 passed_checks |-> sd.passed_checks,
                 warning_checks |-> sd.warning_checks,
                 failed_checks |-> sd.failed_checks,
                 skipped_checks |-> 0,
                 critical_issues |-> sd.critical_issues,
                 recommendations |-> sd.recommendations]
        summaries ==
            IF RowsOf(d.qc_summaries, run_id) # <<>>
            THEN UpdateRow(d.qc_summaries, run_id,
                           [cols |-> cols, computed_at |-> Some(d.now)])
            ELSE Append(d.qc_summaries,
                        [key |-> Len(d.qc_summaries) + 1, run_id |-> run_id,
                         cols |-> cols, computed_at |-> None])
        state_id == CASE sd.overall_status = PASS -> 5
                      [] OTHER -> 6
    IN  [d EXCEPT !.qc_summaries = summaries, !.runs[run_id] = state_id]

\* save_qc_summary (operations.py:480-533): upsert of the row of the run with
\* skipped_checks written as 0, then the run's state: 5 on 'pass', 6 on
\* 'fail', unchanged otherwise
save_qc_summary(d, run_id, sd) ==
    LET cols == [overall_status |-> sd.overall_status,
                 total_checks |-> sd.total_checks,
                 passed_checks |-> sd.passed_checks,
                 warning_checks |-> sd.warning_checks,
                 failed_checks |-> sd.failed_checks,
                 skipped_checks |-> 0,
                 critical_issues |-> sd.critical_issues,
                 recommendations |-> sd.recommendations]
        summaries ==
            IF RowsOf(d.qc_summaries, run_id) # <<>>
            THEN UpdateRow(d.qc_summaries, run_id,
                           [cols |-> cols, computed_at |-> Some(d.now)])
            ELSE Append(d.qc_summaries,
                        [key |-> Len(d.qc_summaries) + 1, run_id |-> run_id,
                         cols |-> cols, computed_at |-> None])
        state_id == CASE sd.overall_status = PASS -> 5
                      [] sd.overall_status = FAIL -> 6
                      [] OTHER -> d.runs[run_id]
    IN  [d EXCEPT !.qc_summaries = summaries, !.runs[run_id] = state_id]

\* save_qc_result (operations.py:455-477): INSERT of a new row
save_qc_result(d, run_id, rule_id, status, measured_value, threshold_used, details, channel_id) ==
    [d EXCEPT !.qc_results =
        Append(@, [key |-> Len(@) + 1, run_id |-> run_id, rule_id |-> rule_id,
                   channel_id |-> channel_id, status |-> status,
                   measured_value |-> measured_value,
                   threshold_used |-> threshold_used, details |-> details])]

\* the rule_id rows of SELECT rule_id FROM qc_rules WHERE rule_code = ?
RuleRows(d, rule_code) ==
    LET Test(row) == row.rule_code = rule_code IN SelectSeq(d.qc_rules, Test)

\* _get_or_create_qc_rule_id (processor.py:255-283): the id of the rule, after
\* a best-effort INSERT when it is missing; None when the INSERT fails
get_or_create_qc_rule_id(d, rule_code, name) ==
    IF RuleRows(d, rule_code) # <<>>
    THEN [db |-> d, rule_id |-> Some(RuleRows(d, rule_code)[1].rule_id)]
    ELSE IF ~d.rules_insertable
    THEN [db |-> d, rule_id |-> None]
    ELSE [db |-> [d EXCEPT !.qc_rules =
                    Append(@, [rule_id |-> Len(@) + 1, rule_name |-> name,
                               rule_code |-> rule_code])],
          rule_id |-> Some(Len(d.qc_rules) + 1)]

\* the threshold stored with a check (processor.py:311-317); `a or b` is b
\* when a is None or 0
threshold_used(check) ==
    CASE check.status = FAIL -> check.threshold_fail
      [] check.status = WARN -> check.threshold_warn
      [] OTHER -> IF check.threshold_warn = None \/ check.threshold_warn = Some(0)
                  THEN check.threshold_fail
                  ELSE check.threshold_warn

\* ---- inputs of save_results --------------------------------------------

\* AeroCalculator.process_run found no force channel, or these means
AeroSamples ==
    { None, Some([Cl_mean |-> 2, Cd_mean |-> 1, efficiency_mean |-> 2,
                  balance_mean |-> 45]) }

\* the ProcessingResult process_from_samples builds (processor.py:160-190)
\* from these aligned channels, free of spikes, out of `actual` raw samples
\* with `expected` samples expected
Processed(run_id, aero, channel_data, expected, actual) ==
    [run_id |-> run_id,
     original_sample_count |-> actual,
     processed_sample_count |->
         IF Len(channel_data) = 0 THEN 0
         ELSE Len(channel_data[1].t) * Len(channel_data),
     total_spikes |-> 0,
     aero_metrics |-> aero,
     qc_summary |-> Some(run_all_checks(DEFAULT_THRESHOLDS, channel_data,
                             expected, actual,
                             [none |-> FALSE,
                              counts |-> [c \in { channel_data[i].id :
                                                  i \in 1..Len(channel_data) } |-> 0]],
                             10))]

\* the ProcessingResults handed to save_results: of a run with one channel of
\* 12 samples, of runs without a channel that miss 0, 2 or 60 of 100 samples,
\* and of a run processed without QC
ProcessingResults ==
    { Processed(r, a, << [id |-> 1, t |-> Axis(12, 10), v |-> Ramp(12)] >>, 12, 12)
      : r \in RunIds, a \in AeroSamples }
    \cup { Processed(r, None, <<>>, 100, actual)
           : r \in RunIds, actual \in {100, 98, 40} }
    \cup { [run_id |-> r, original_sample_count |-> 0,
            processed_sample_count |-> 0, total_spikes |-> 0,
            aero_metrics |-> None, qc_summary |-> None] : r \in RunIds }

\* the database before the first save: the runs stopped (state 3,
\* operations.py:260), no statistics, no summary, no result; the qc_rules
\* table empty or seeded with the rule of the missing-data check, and
\* accepting new rules or not
Databases ==
    { [run_statistics |-> <<>>, qc_summaries |-> <<>>, qc_results |-> <<>>,
       qc_rules |-> rules, runs |-> [r \in RunIds |-> 3],
       rules_insertable |-> ins, now |-> 0]
      : rules \in { <<>>, << [rule_id |-> 1, rule_name |-> rule_name("MISS-DATA"),
                             rule_code |-> "MISS-DATA"] >> },
        ins \in BOOLEAN }

SaveInit ==
    /\ db \in Databases
    /\ save = NoSave
    /\ summary = NewSummary(PASS)
    /\ finalized = FALSE
    /\ thresholds = DEFAULT_THRESHOLDS
    /\ call = NoCall
    /\ despiker = DefaultDespiker
    /\ dcall = NoCall
    /\ resampler = DefaultResampler
    /\ rcall = NoCall
    /\ acalc = DefaultAeroCalculator
    /\ acall = NoCall
    /\ class_thresholds = DEFAULT_THRESHOLDS
    /\ procs = NoProcessors
    /\ frames = NoFrames
    /\ broker = NoBroker
    /\ consumer = NoConsumer
    /\ sample_rows = {}
    /\ run_rows = <<>>
    /\ creators = NoCreators
    /\ request = NoRequest
    /\ helper = NoHelper

\* where save_results goes after the check at index i (processor.py:304)
AfterCheck(sv, i) ==
    IF i < Len(sv.result.qc_summary[1].checks)
    THEN [sv EXCEPT !.pc = "rule", !.i = i + 1]
    ELSE [sv EXCEPT !.pc = "done"]

\* save_results is called (processor.py:245); the clock of the database
\* server has moved on since the last call
SaveResults ==
    /\ save.pc = "idle"
    /\ save.saves < MaxSaves
    /\ \E result \in ProcessingResults :
          save' = [pc |-> "statistics", saves |-> save.saves, last |-> save.last,
                   result |-> result, i |-> 0, rule_id |-> None,
                   before |-> db, again |-> (save.last = Some(result))]
    /\ db' = [db EXCEPT !.now = @ + 1]
    /\ UNCHANGED notSave

\* processor.py:285-287
SaveRunStatistics ==
    /\ save.pc = "statistics"
    /\ db' = save_run_statistics(db, save.result.run_id,
                                 to_statistics_dict(save.result))
    /\ save' = [save EXCEPT !.pc = IF save.result.qc_summary = None
                                   THEN "done" ELSE "summary"]
    /\ UNCHANGED notSave

\* processor.py:289-301
SaveQcSummary ==
    /\ save.pc = "summary"
    /\ db' = save_qc_summary(db, save.result.run_id,
                             to_dict(save.result.qc_summary[1]))
    /\ save' = AfterCheck(save, 0)
    /\ UNCHANGED notSave

\* processor.py:304-308: the rule of the next check is looked up or created;
\* the check is skipped when it cannot be mapped
GetOrCreateQcRuleId ==
    /\ save.pc = "rule"
    /\ LET check == save.result.qc_summary[1].checks[save.i]
           r == get_or_create_qc_rule_id(db, check.rule_code,
                                         rule_name(check.rule_code))
       IN  /\ db' = r.db
           /\ save' = IF r.rule_id = None
                      THEN AfterCheck(save, save.i)
                      ELSE [save EXCEPT !.pc = "result", !.rule_id = r.rule_id]
    /\ UNCHANGED notSave

\* processor.py:310-327
SaveQcResult ==
    /\ save.pc = "result"
    /\ LET check == save.result.qc_summary[1].checks[save.i]
       IN  db' = save_qc_result(db, save.result.run_id, save.rule_id[1],
                                check.status, check.measured_value,
                                threshold_used(check), check.details,
                                check.channel_id)
    /\ save' = AfterCheck(save, save.i)
    /\ UNCHANGED notSave

\* a database call of save_results raises before it commits (the connection
\* is lost, the statement is refused) or the process is stopped between two
\* calls: get_db_connection rolls the call's own statements back
\* (connection.py:93-111) and save_results is left, with no handler
\* (processor.py:245-327)
SaveFails ==
    /\ save.pc \in {"statistics", "summary", "rule", "result"}
    /\ save' = [save EXCEPT !.pc = "failed"]
    /\ UNCHANGED db
    /\ UNCHANGED notSave

\* save_results returns, or its exception has left it
SaveReturn ==
    /\ save.pc \in {"done", "failed"}
    /\ save' = [pc |-> "idle", saves |-> save.saves + 1,
                last |-> IF save.pc = "done" THEN Some(save.result) ELSE None]
    /\ UNCHANGED db
    /\ UNCHANGED notSave

-----------------------------------------------------------------------------
\* AeroCalculator (src/src/processing/aero_metrics.py).  A number is an exact
\* fraction <<numerator, denominator>> with a positive denominator; the
\* invalid marker np.nan is the pair <<0, 0>>.  An array of one element
\* broadcasts against a longer one.

FNaN == <<0, 0>>

IsNaNF(x) == x[2] = 0

\* x > 0, False for nan
FPos(x) == x[2] # 0 /\ x[1] > 0

FAdd(a, b) ==
    IF IsNaNF(a) \/ IsNaNF(b) THEN FNaN
    ELSE Frac(a[1] * b[2] + b[1] * a[2], a[2] * b[2])

FMul(a, b) ==
    IF IsNaNF(a) \/ IsNaNF(b) THEN FNaN ELSE Frac(a[1] * b[1], a[2] * b[2])

\* a / b for b > 0 or nan: every divisor of this module went through
\* np.where(d > 0, d, np.nan)
FDiv(a, b) ==
    IF IsNaNF(a) \/ IsNaNF(b) THEN FNaN ELSE Frac(a[1] * b[2], a[2] * b[1])

FAbs(a) == <<Abs(a[1]), a[2]>>

\* element i of an array broadcast to a longer shape
At(a, i) == IF Len(a) = 1 THEN a[1] ELSE a[i]

\* the length two arrays broadcast to
BLen(a, b) == IF Len(a) = 1 THEN Len(b) ELSE Len(a)

\* np.where(d > 0, d, np.nan)
Safe(d) == [i \in 1..Len(d) |-> IF FPos(d[i]) THEN d[i] ELSE FNaN]

\* numerator / divisor, element by element
Over(numerator, divisor) ==
    [i \in 1..BLen(numerator, divisor) |-> FDiv(At(numerator, i), At(divisor, i))]

\* array * scalar
Times(a, k) == [i \in 1..Len(a) |-> FMul(a[i], k)]

\* AeroCalculator.RHO_STD (aero_metrics.py:68)
RHO_STD == <<49, 40>>

\* AeroCalculator.calculate_dynamic_pressure (aero_metrics.py:88-106):
\* 0.5 * air_density * velocity ** 2
calculate_dynamic_pressure(velocity, air_density) ==
    [i \in 1..BLen(velocity, air_density) |->
        FMul(<<1, 2>>, FMul(At(air_density, i),
                            FMul(At(velocity, i), At(velocity, i))))]

\* AeroCalculator.calculate_coefficients (aero_metrics.py:108-136)
calculate_coefficients(c, lift, drag, side_force, dynamic_pressure) ==
    LET q_A == Safe(Times(dynamic_pressure, c.reference_area))
    IN  [Cl |-> Over(lift, q_A), Cd |-> Over(drag, q_A), Cy |-> Over(side_force, q_A)]

\* AeroCalculator.calculate_moments (aero_metrics.py:138-166)
calculate_moments(c, pitch_moment, roll_moment, yaw_moment, dynamic_pressure) ==
    LET q_A_L == Safe(Times(Times(dynamic_pressure, c.reference_area), c.wheelbase))
    IN  [Cm_pitch |-> Over(pitch_moment, q_A_L),
         Cm_roll |-> Over(roll_moment, q_A_L),
         Cm_yaw |-> Over(yaw_moment, q_A_L)]

\* AeroCalculator.calculate_efficiency (aero_metrics.py:168-186)
calculate_efficiency(Cl, Cd) ==
    Over([i \in 1..Len(Cl) |-> FAbs(Cl[i])], Safe(Cd))

\* AeroCalculator.calculate_aero_balance (aero_metrics.py:188-205)
calculate_aero_balance(front_downforce, rear_downforce) ==
    LET total == [i \in 1..BLen(front_downforce, rear_downforce) |->
                     FAdd(At(front_downforce, i), At(rear_downforce, i))]
    IN  Over(Times(front_downforce, <<100, 1>>), Safe(total))

\* the elements of an array that are not nan
Valid(a) == LET Test(x) == ~IsNaNF(x) IN SelectSeq(a, Test)

RECURSIVE FSum(_)
FSum(a) == IF a = <<>> THEN <<0, 1>> ELSE FAdd(Head(a), FSum(Tail(a)))

\* np.nanmean: nan for an array without a valid element
nanmean(a) ==
    IF Valid(a) = <<>> THEN FNaN ELSE FDiv(FSum(Valid(a)), <<Len(Valid(a)), 1>>)

\* np.nanstd: nan for an array without a valid element; the standard
\* deviation of the valid elements is a square root and is not computed: it
\* is kept as the elements it is the deviation of
nanstd(a) == IF Valid(a) = <<>> THEN FNaN ELSE [std_of |-> Valid(a)]

\* the default channel mapping of process_run (aero_metrics.py:223-235)
channel_mapping ==
    [lift |-> 1, drag |-> 2, side |-> 3, pitch |-> 4, roll |-> 5, yaw |-> 6,
     fw_lift |-> 7, rw_lift |-> 9, velocity |-> 59, q_dynamic |-> 63, rho |-> 68]

\* channel_data.get(key, default)
GetOr(channel_data, key, default) ==
    IF key \in DOMAIN channel_data THEN channel_data[key] ELSE default

\* AeroCalculator.process_run (aero_metrics.py:207-283) on a dict of arrays
\* of one length
process_run(c, channel_data) ==
    LET lift == GetOr(channel_data, channel_mapping.lift, << <<0, 1>> >>)
        drag == GetOr(channel_data, channel_mapping.drag, << <<0, 1>> >>)
        side == GetOr(channel_data, channel_mapping.side, << <<0, 1>> >>)
        pitch == GetOr(channel_data, channel_mapping.pitch, << <<0, 1>> >>)
        roll == GetOr(channel_data, channel_mapping.roll, << <<0, 1>> >>)
        yaw == GetOr(channel_data, channel_mapping.yaw, << <<0, 1>> >>)
        velocity == GetOr(channel_data, channel_mapping.velocity, << <<50, 1>> >>)
        rho == GetOr(channel_data, channel_mapping.rho, << RHO_STD >>)
        q == calculate_dynamic_pressure(velocity, rho)
        f == calculate_coefficients(c, lift, drag, side, q)
        m == calculate_moments(c, pitch, roll, yaw, q)
        efficiency == calculate_efficiency(f.Cl, f.Cd)
        aero_balance ==
            IF channel_mapping.fw_lift \in DOMAIN channel_data
               /\ channel_mapping.rw_lift \in DOMAIN channel_data
            THEN calculate_aero_balance(
                    [i \in 1..Len(channel_data[channel_mapping.fw_lift]) |->
                        FAbs(channel_data[channel_mapping.fw_lift][i])],
                    [i \in 1..Len(channel_data[channel_mapping.rw_lift]) |->
                        FAbs(channel_data[channel_mapping.rw_lift][i])])
            ELSE [i \in 1..Len(f.Cl) |-> <<45, 1>>]
    IN  [Cl |-> f.Cl, Cd |-> f.Cd, Cy |-> f.Cy,
         Cm_pitch |-> m.Cm_pitch, Cm_roll |-> m.Cm_roll, Cm_yaw |-> m.Cm_yaw,
         efficiency |-> efficiency, aero_balance |-> aero_balance,
         Cl_mean |-> nanmean(f.Cl), Cl_std |-> nanstd(f.Cl),
         Cd_mean |-> nanmean(f.Cd), Cd_std |-> nanstd(f.Cd),
         efficiency_mean |-> nanmean(efficiency),
         balance_mean |-> nanmean(aero_balance)]

\* ---- inputs of the AeroCalculator --------------------------------------

\* reference areas: the default and none
AeroCalculators ==
    { [DefaultAeroCalculator EXCEPT !.reference_area = a] : a \in { <<1, 1>>, <<0, 1>> } }

AeroChannels == {1, 2, 4, 7, 9, 59, 68}

\* the two values a channel takes, by channel: forces, a moment, wing
\* loads, speeds, densities of both signs
AeroValues(id) ==
    CASE id = 1 -> <<0 - 2, 0>>
      [] id = 2 -> <<0, 1>>
      [] id = 4 -> <<5, 5>>
      [] id = 7 -> <<0 - 3, 0>>
      [] id = 9 -> <<0, 1>>
      [] id = 59 -> <<0, 2>>
      [] OTHER -> <<0 - 1, 1>>

\* the arrays of length n of a channel: choice 1 is its first value followed
\* by its second at every later point, choice 2 the other way round
AeroArray(id, n, k) ==
    [i \in 1..n |-> <<AeroValues(id)[IF i = 1 THEN k ELSE 3 - k], 1>>]

\* datasets: some channels (choice 0 leaves a channel out), arrays of one
\* length
AeroDatasets ==
    UNION { { [id \in { c \in AeroChannels : f[c] # 0 } |-> AeroArray(id, n, f[id])]
              : f \in [AeroChannels -> 0..2] }
            : n \in 0..MaxAeroLen }

AeroInit ==
    /\ acalc \in AeroCalculators
    /\ acall = NoCall
    /\ summary = NewSummary(PASS)
    /\ finalized = FALSE
    /\ thresholds = DEFAULT_THRESHOLDS
    /\ call = NoCall
    /\ despiker = DefaultDespiker
    /\ dcall = NoCall
    /\ resampler = DefaultResampler
    /\ rcall = NoCall
    /\ db = EmptyDatabase
    /\ save = NoSave
    /\ class_thresholds = DEFAULT_THRESHOLDS
    /\ procs = NoProcessors
    /\ frames = NoFrames
    /\ broker = NoBroker
    /\ consumer = NoConsumer
    /\ sample_rows = {}
    /\ run_rows = <<>>
    /\ creators = NoCreators
    /\ request = NoRequest
    /\ helper = NoHelper

ProcessRun ==
    /\ acall.op = "none"
    /\ \E channel_data \in AeroDatasets :
          acall' = [op |-> "process_run", channel_data |-> channel_data,
                    result |-> process_run(acalc, channel_data)]
    /\ UNCHANGED acalc
    /\ UNCHANGED notAero

AeroReturn ==
    /\ acall.op # "none"
    /\ acall' = NoCall
    /\ UNCHANGED acalc
    /\ UNCHANGED notAero

-----------------------------------------------------------------------------
\* RunProcessor (src/src/processing/processor.py).  A sample is
\* [channel_id, ts, value]; ts is [kind, ms]: a datetime or a plain number of
\* seconds, in whole milliseconds.  A dict in insertion order is the pair of
\* its key order and its contents.  The lists of samples taken below keep
\* every resampled and aligned time and value a whole number, which is what
\* the Despiker and the QCEngine above compute with.

\* QCEngine.__init__ that updates the class attribute itself
QCEngine_init_InPlace(defaults, overrides) ==
    LET updated == [k \in DOMAIN defaults |->
                       IF k \in DOMAIN overrides THEN overrides[k] ELSE defaults[k]]
    IN  [DEFAULT_THRESHOLDS |-> updated, thresholds |-> updated]

\* QCEngine.__init__ (qc_engine.py:110-119) with the class attribute as an
\* argument: the class attribute after the call, and self.thresholds
QCEngine_init(defaults, overrides) ==
    [DEFAULT_THRESHOLDS |-> defaults,
     thresholds |-> [k \in DOMAIN defaults |->
                        IF k \in DOMAIN overrides THEN overrides[k] ELSE defaults[k]]]

\* RunProcessor.__init__ (processor.py:81-102)
NewRunProcessor(defaults, target_hz, despike_threshold, reference_area) ==
    [target_hz |-> target_hz,
     despike_threshold |-> despike_threshold,
     reference_area |-> reference_area,
     resampler |-> NewResampler(target_hz),
     despiker |-> [DefaultDespiker EXCEPT !.threshold = despike_threshold],
     aero_calc |-> [DefaultAeroCalculator EXCEPT !.reference_area = reference_area],
     qc_engine |-> [thresholds |-> QCEngine_init(defaults, <<>>).thresholds]]

\* the ts of the sample delivered first
base_ts_First(samples) == samples[1].ts.ms

\* the earliest ts of the samples (resampler.py:109-115)
base_ts(samples) == SetMin({ samples[i].ts.ms : i \in 1..Len(samples) })

\* seconds from start for a datetime, the number itself otherwise
\* (resampler.py:124-128)
rel_time(samples, i) ==
    IF samples[i].ts.kind = "datetime"
    THEN samples[i].ts.ms - base_ts(samples)
    ELSE samples[i].ts.ms

\* the keys of the dict channel_data in insertion order (resampler.py:132-133)
RECURSIVE KeyOrder(_, _, _)
KeyOrder(samples, i, order) ==
    IF i > Len(samples) THEN order
    ELSE KeyOrder(samples, i + 1,
                  IF \E k \in 1..Len(order) : order[k] = samples[i].channel_id
                  THEN order
                  ELSE Append(order, samples[i].channel_id))

Earlier(a, b) == a.t < b.t

\* the (time, value) pairs of a channel in the order given, then sorted by
\* time (resampler.py:117-146)
SortedChannel(samples, channel_id) ==
    LET idx == SelectSeq([i \in 1..Len(samples) |-> i],
                         LAMBDA i : samples[i].channel_id = channel_id)
    IN  SortSeq([k \in 1..Len(idx) |->
                    [t |-> rel_time(samples, idx[k]), v |-> samples[idx[k]].value]],
                Earlier)

\* a whole number, or nan, as the Despiker and the QCEngine above hold it
ToValue(x) == IF x[2] = 0 THEN NaN ELSE x[1]

\* and as the AeroCalculator holds it
ToFraction(v) == IF v = NaN THEN FNaN ELSE <<v, 1>>

\* Resampler.resample_run (resampler.py:86-154) with the default method of
\* every channel: the results the call can have, each the key order and the
\* (times, values) of every channel, or raised
resample_run(r, samples) ==
    LET order == KeyOrder(samples, 1, <<>>)
        ids == { order[k] : k \in 1..Len(order) }
        Resampled(c) ==
            LET sorted == SortedChannel(samples, c)
            IN  resample_channel(r, [k \in 1..Len(sorted) |-> sorted[k].t],
                                    [k \in 1..Len(sorted) |-> sorted[k].v], "linear")
        outcomes == { f \in [ids -> UNION { Resampled(c) : c \in ids }] :
                        \A c \in ids : f[c] \in Resampled(c) }
    IN  { IF \E c \in ids : f[c].raised
          THEN [raised |-> TRUE, order |-> <<>>, data |-> <<>>]
          ELSE [raised |-> FALSE, order |-> order,
                data |-> [c \in ids |->
                    [times |-> [i \in 1..Len(f[c].t_new) |-> ToValue(f[c].t_new[i])],
                     values |-> [i \in 1..Len(f[c].v_new) |-> ToValue(f[c].v_new[i])]]]]
          : f \in outcomes }

\* processor.py:125-131: the aligned channels of the resampled ones, as
\* (raised, common_time, aligned_data)
align_stage(p, resampled) ==
    IF resampled.order # <<>>
    THEN { [raised |-> a.raised,
            common_time |-> [i \in 1..Len(a.common_time) |-> ToValue(a.common_time[i])],
            aligned_data |-> [c \in DOMAIN a.aligned |->
                                 [i \in 1..Len(a.aligned[c]) |-> ToValue(a.aligned[c][i])]]]
           : a \in align_channels(p.resampler, resampled.data) }
    ELSE { [raised |-> FALSE, common_time |-> <<>>, aligned_data |-> <<>>] }

RECURSIVE SumOver(_, _)
\* the sum of f over the set S of its keys
SumOver(f, S) ==
    IF S = {} THEN 0
    ELSE LET c == CHOOSE x \in S : TRUE IN f[c] + SumOver(f, S \ {c})

\* processor.py:133-143: despike_results of the aligned channels
despike_stage(p, common_time, aligned_data) ==
    [c \in DOMAIN aligned_data |-> despike(p.despiker, common_time, aligned_data[c])]

\* processor.py:145-146: the aero metrics of these channels
aero_stage(p, channel_values) ==
    process_run(p.aero_calc,
                [c \in DOMAIN channel_values |->
                    [i \in 1..Len(channel_values[c]) |-> ToFraction(channel_values[c][i])]])

\* the QC summary with no expected count passed on when none is given
qc_stage_NoDefault(p, order, common_time, channel_values, despike_results, expected_sample_count, original_count) ==
    run_all_checks(p.qc_engine.thresholds,
                   [k \in 1..Len(order) |->
                       [id |-> order[k], t |-> common_time, v |-> channel_values[order[k]]]],
                   IF expected_sample_count = None THEN 0
                   ELSE expected_sample_count[1],
                   original_count,
                   [none |-> FALSE,
                    counts |-> [c \in DOMAIN despike_results |->
                                   despike_results[c].spike_count]],
                   1000 \div p.target_hz)

\* processor.py:148-172: the QC summary of these channels, in key order
qc_stage(p, order, common_time, channel_values, despike_results, expected_sample_count, original_count) ==
    run_all_checks(p.qc_engine.thresholds,
                   [k \in 1..Len(order) |->
                       [id |-> order[k], t |-> common_time, v |-> channel_values[order[k]]]],
                   IF expected_sample_count = None THEN original_count
                   ELSE expected_sample_count[1],
                   original_count,
                   [none |-> FALSE,
                    counts |-> [c \in DOMAIN despike_results |->
                                   despike_results[c].spike_count]],
                   1000 \div p.target_hz)

\* the ProcessingResult of processor.py:177-190, processing_time_ms apart
ProcessingResult(run_id, order, common_time, despike_results, aero_metrics, qc_summary, original_count) ==
    [run_id |-> run_id,
     timestamps |-> common_time,
     channel_order |-> order,
     channel_data |-> [c \in DOMAIN despike_results |-> despike_results[c].cleaned],
     despike_results |-> despike_results,
     total_spikes |-> SumOver([c \in DOMAIN despike_results |->
                                  despike_results[c].spike_count],
                              DOMAIN despike_results),
     aero_metrics |-> Some(aero_metrics),
     qc_summary |-> Some(qc_summary),
     original_sample_count |-> original_count,
     processed_sample_count |->
         IF Len(common_time) > 0 THEN Len(common_time) * Len(order) ELSE 0]

RaisedOutcome == [raised |-> TRUE]

\* RunProcessor.process_from_samples (processor.py:104-190) run from its
\* first line to its last: the outcomes the call can have, each a
\* ProcessingResult or raised
process_from_samples(p, run_id, samples, expected_sample_count) ==
    UNION { IF resampled.raised THEN { RaisedOutcome }
            ELSE { IF a.raised \/ \E c \in DOMAIN a.aligned_data :
                                     despike(p.despiker, a.common_time, a.aligned_data[c]).raised
                   THEN RaisedOutcome
                   ELSE LET despike_results == despike_stage(p, a.common_time, a.aligned_data)
                            despiked_data == [c \in DOMAIN despike_results |->
                                                 despike_results[c].cleaned]
                        IN  [raised |-> FALSE,
                             result |-> ProcessingResult(run_id, resampled.order,
                                 a.common_time, despike_results,
                                 aero_stage(p, despiked_data),
                                 qc_stage(p, resampled.order, a.common_time,
                                          despiked_data, despike_results,
                                          expected_sample_count, Len(samples)),
                                 Len(samples))]
                   : a \in align_stage(p, resampled) }
            : resampled \in resample_run(p.resampler, samples) }

\* ---- inputs of the RunProcessor ----------------------------------------

\* the raw sample period in milliseconds: a little over the 10 ms of the
\* default target rate, so that no span is a whole number of periods
RawPeriod == 11

\* the value of sample i of a channel: a ramp, a ramp with a glitch at its
\* third sample, or a constant
ShapeValue(shape, i) ==
    CASE shape = "ramp" -> 22 * i
      [] shape = "spike" -> IF i = 3 THEN 2200 ELSE 22 * i
      [] OTHER -> 44

\* the samples of one channel: count samples one RawPeriod apart from start
ChannelSamples(channel_id, kind, start, count, shape) ==
    [i \in 1..count |->
        [channel_id |-> channel_id,
         ts |-> [kind |-> kind, ms |-> start + RawPeriod * (i - 1)],
         value |-> ShapeValue(shape, i)]]

Reverse(s) == [i \in 1..Len(s) |-> s[Len(s) + 1 - i]]

\* the lift channel: a single sample, two, six or ten samples
LiftChannels(kind) ==
    { ChannelSamples(channel_mapping.lift, kind, start, cs[1], cs[2])
      : start \in {0, 22},
        cs \in { <<1, "ramp">>, <<2, "ramp">>, <<6, "ramp">>, <<6, "spike">>,
                 <<10, "ramp">>, <<10, "flat">>, <<10, "spike">> } }

\* a second channel, drag or velocity: over the same time range as the lift
\* channel, later, overlapping it in part, or after its end
OtherChannels(kind) ==
    { ChannelSamples(is[1], kind, start, count, is[2])
      : is \in { <<channel_mapping.drag, "ramp">>, <<channel_mapping.velocity, "flat">> },
        start \in {0, 11, 16, 132},
        count \in {1, 2, 6} }

\* a lift channel of two samples: a little less than two target periods
\* apart, two target periods apart, or ten raw periods apart (nine samples
\* lost in a row)
PairChannels(kind) ==
    { [i \in 1..2 |->
          [channel_id |-> channel_mapping.lift,
           ts |-> [kind |-> kind, ms |-> apart * (i - 1)],
           value |-> ShapeValue("flat", i)]]
      : apart \in {19, 20, 10 * RawPeriod} }

\* the last point of the axis align_channels builds falls on a whole
\* millisecond with every point before it
WholeAxis(samples) ==
    \A resampled \in resample_run(DefaultResampler, samples) :
        resampled.order # <<>> =>
            \A a \in align_channels(DefaultResampler, resampled.data) :
                \A i \in 1..Len(a.common_time) : a.common_time[i][2] = 1

\* the sample lists: none, one channel, one channel of two samples far
\* apart, two channels one after the other, each also latest sample first
SampleLists ==
    LET lists == UNION { { <<>> } \cup PairChannels(kind) \cup LiftChannels(kind)
                          \cup { a \o b : a \in LiftChannels(kind), b \in OtherChannels(kind) }
                         : kind \in {"datetime", "float"} }
    IN  { s \in lists \cup { Reverse(l) : l \in lists } : WholeAxis(s) }

\* expected_sample_count: not given, or more than a short list holds
ExpectedSampleCounts == { None, Some(12) }

\* the settings of a RunProcessor (target_hz, despike_threshold,
\* reference_area): the default ones and other ones
ProcessorSettings == { <<100, DefaultThreshold, <<1, 1>>>>, <<100, TwoMads, <<2, 1>>>> }

RunProcessors ==
    { NewRunProcessor(DEFAULT_THRESHOLDS, s[1], s[2], s[3]) : s \in ProcessorSettings }

PipelineInit ==
    /\ class_thresholds = DEFAULT_THRESHOLDS
    /\ procs \in { [p \in Instances |-> IF p = 1 THEN Some(rp) ELSE None] : rp \in RunProcessors }
    /\ frames = NoFrames
    /\ summary = NewSummary(PASS)
    /\ finalized = FALSE
    /\ thresholds = DEFAULT_THRESHOLDS
    /\ call = NoCall
    /\ despiker = DefaultDespiker
    /\ dcall = NoCall
    /\ resampler = DefaultResampler
    /\ rcall = NoCall
    /\ db = EmptyDatabase
    /\ save = NoSave
    /\ acalc = DefaultAeroCalculator
    /\ acall = NoCall
    /\ broker = NoBroker
    /\ consumer = NoConsumer
    /\ sample_rows = {}
    /\ run_rows = <<>>
    /\ creators = NoCreators
    /\ request = NoRequest
    /\ helper = NoHelper

\* the RunProcessor of an invocation
Self(f) == procs[frames[f].self][1]

\* processor.py:119-120: process_from_samples is called on a RunProcessor
ProcessFromSamples ==
    /\ frames[1].pc = "idle"
    /\ procs[1] # None
    /\ \E run_id \in RunIds, samples \in SampleLists, expected \in ExpectedSampleCounts :
          frames' = [frames EXCEPT ![1] =
                        [pc |-> "resample", self |-> 1, run_id |-> run_id,
                         samples |-> samples, expected_sample_count |-> expected,
                         original_count |-> Len(samples)]]
    /\ UNCHANGED <<class_thresholds, procs>>
    /\ UNCHANGED notPipeline

\* processor.py:122-123
PipelineResample ==
    /\ \E f \in Frames :
          /\ frames[f].pc = "resample"
          /\ \E resampled \in resample_run(Self(f).resampler, frames[f].samples) :
                frames' = [frames EXCEPT ![f] =
                    IF resampled.raised
                    THEN [pc |-> "raised", stage |-> "resample", self |-> frames[f].self,
                          samples |-> frames[f].samples]
                    ELSE [frames[f] EXCEPT !.pc = "align"] @@ [resampled |-> resampled]]
    /\ UNCHANGED <<class_thresholds, procs>>
    /\ UNCHANGED notPipeline

\* processor.py:125-131
PipelineAlign ==
    /\ \E f \in Frames :
          /\ frames[f].pc = "align"
          /\ \E a \in align_stage(Self(f), frames[f].resampled) :
                frames' = [frames EXCEPT ![f] =
                    IF a.raised
                    THEN [pc |-> "raised", stage |-> "align", self |-> frames[f].self,
                          samples |-> frames[f].samples]
                    ELSE [frames[f] EXCEPT !.pc = "despike"]
                         @@ [common_time |-> a.common_time, aligned_data |-> a.aligned_data]]
    /\ UNCHANGED <<class_thresholds, procs>>
    /\ UNCHANGED notPipeline

\* processor.py:133-143
PipelineDespike ==
    /\ \E f \in Frames :
          /\ frames[f].pc = "despike"
          /\ LET despike_results ==
                     despike_stage(Self(f), frames[f].common_time, frames[f].aligned_data)
             IN  frames' = [frames EXCEPT ![f] =
                    IF \E c \in DOMAIN despike_results : despike_results[c].raised
                    THEN [pc |-> "raised", stage |-> "despike", self |-> frames[f].self,
                          samples |-> frames[f].samples]
                    ELSE [frames[f] EXCEPT !.pc = "aero"]
                         @@ [despike_results |-> despike_results,
                             despiked_data |-> [c \in DOMAIN despike_results |->
                                                   despike_results[c].cleaned],
                             total_spikes |-> SumOver([c \in DOMAIN despike_results |->
                                                          despike_results[c].spike_count],
                                                      DOMAIN despike_results)]]
    /\ UNCHANGED <<class_thresholds, procs>>
    /\ UNCHANGED notPipeline

\* the aero metrics computed from the channels as they were before despiking
aero_input_Aligned(frame) == frame.aligned_data

\* the channels the aero metrics are computed from (processor.py:146)
aero_input(frame) == frame.despiked_data

\* processor.py:145-146
PipelineAero ==
    /\ \E f \in Frames :
          /\ frames[f].pc = "aero"
          /\ frames' = [frames EXCEPT ![f] =
                [frames[f] EXCEPT !.pc = "qc"]
                @@ [aero_metrics |-> aero_stage(Self(f), aero_input(frames[f]))]]
    /\ UNCHANGED <<class_thresholds, procs>>
    /\ UNCHANGED notPipeline

\* processor.py:148-172
PipelineQC ==
    /\ \E f \in Frames :
          /\ frames[f].pc = "qc"
          /\ frames' = [frames EXCEPT ![f] =
                [frames[f] EXCEPT !.pc = "done"]
                @@ [qc_summary |-> qc_stage(Self(f), frames[f].resampled.order,
                                            frames[f].common_time, frames[f].despiked_data,
                                            frames[f].despike_results,
                                            frames[f].expected_sample_count,
                                            frames[f].original_count)]]
    /\ UNCHANGED <<class_thresholds, procs>>
    /\ UNCHANGED notPipeline

\* the ProcessingResult an invocation at its last line returns
\* (processor.py:177-190)
ResultOf(frame) ==
    [run_id |-> frame.run_id,
     timestamps |-> frame.common_time,
     channel_order |-> frame.resampled.order,
     channel_data |-> frame.despiked_data,
     despike_results |-> frame.despike_results,
     total_spikes |-> frame.total_spikes,
     aero_metrics |-> Some(frame.aero_metrics),
     qc_summary |-> Some(frame.qc_summary),
     original_sample_count |-> frame.original_count,
     processed_sample_count |->
         IF Len(frame.common_time) > 0
         THEN Len(frame.common_time) * Len(frame.resampled.order) ELSE 0]

\* the invocation returns its result, or its exception leaves it
PipelineReturn ==
    /\ \E f \in Frames :
          /\ frames[f].pc \in {"done", "raised"}
          /\ frames' = [frames EXCEPT ![f] = IdleFrame]
    /\ UNCHANGED <<class_thresholds, procs>>
    /\ UNCHANGED notPipeline

\* ---- RunProcessors side by side ----------------------------------------

\* the sample lists of the invocations that run side by side: none, a lift
\* channel with a glitch, lift and drag over one time range, and lift and drag
\* that do not overlap
ConcurrentLists ==
    { <<>>,
      ChannelSamples(channel_mapping.lift, "datetime", 0, 6, "spike"),
      ChannelSamples(channel_mapping.lift, "datetime", 0, 2, "ramp")
          \o ChannelSamples(channel_mapping.drag, "datetime", 0, 2, "ramp"),
      ChannelSamples(channel_mapping.lift, "datetime", 0, 2, "ramp")
          \o ChannelSamples(channel_mapping.drag, "datetime", 132, 2, "ramp") }

ConcurrentInit ==
    /\ class_thresholds = DEFAULT_THRESHOLDS
    /\ procs = NoProcessors
    /\ frames = NoFrames
    /\ summary = NewSummary(PASS)
    /\ finalized = FALSE
    /\ thresholds = DEFAULT_THRESHOLDS
    /\ call = NoCall
    /\ despiker = DefaultDespiker
    /\ dcall = NoCall
    /\ resampler = DefaultResampler
    /\ rcall = NoCall
    /\ db = EmptyDatabase
    /\ save = NoSave
    /\ acalc = DefaultAeroCalculator
    /\ acall = NoCall
    /\ broker = NoBroker
    /\ consumer = NoConsumer
    /\ sample_rows = {}
    /\ run_rows = <<>>
    /\ creators = NoCreators
    /\ request = NoRequest
    /\ helper = NoHelper

\* QCEngine(thresholds=overrides) (qc_engine.py:110-119): a QCEngine of its
\* own is created
NewQCEngine ==
    /\ \E overrides \in ThresholdOverrides :
          /\ thresholds' = QCEngine_init(class_thresholds, overrides).thresholds
          /\ class_thresholds' = QCEngine_init(class_thresholds, overrides).DEFAULT_THRESHOLDS
    /\ UNCHANGED <<procs, frames>>
    /\ UNCHANGED <<summary, finalized, call>>
    /\ UNCHANGED <<despikeVars, resamplerVars, saveVars, aeroVars, consumerVars, runVars, helperVars>>

\* RunProcessor(...) (processor.py:81-102): a RunProcessor is created
CreateRunProcessor ==
    /\ \E p \in Instances, s \in ProcessorSettings :
          /\ procs[p] = None
          /\ procs' = [procs EXCEPT ![p] =
                          Some(NewRunProcessor(class_thresholds, s[1], s[2], s[3]))]
          /\ class_thresholds' = QCEngine_init(class_thresholds, <<>>).DEFAULT_THRESHOLDS
    /\ UNCHANGED frames
    /\ UNCHANGED notPipeline

\* processor.py:119-120: process_from_samples is called on one of the
\* RunProcessors, whether or not it is in use, for the run of its own of
\* this invocation
ConcurrentProcessFromSamples ==
    /\ \E f \in Frames, p \in Instances, samples \in ConcurrentLists :
          /\ frames[f].pc = "idle"
          /\ procs[p] # None
          /\ frames' = [frames EXCEPT ![f] =
                           [pc |-> "resample", self |-> p, run_id |-> f,
                            samples |-> samples, expected_sample_count |-> None,
                            original_count |-> Len(samples)]]
    /\ UNCHANGED <<class_thresholds, procs>>
    /\ UNCHANGED notPipeline

-----------------------------------------------------------------------------
\* SensorDataConsumer (src/src/streaming/consumer.py) on one topic partition.
\* A message is known by its offset in the log, 1 for the first one; the
\* position of the consumer and the committed offset are the number of
\* messages before them.  KafkaConsumer.poll moves the position past the
\* records it returns, and KafkaConsumer.commit commits the position.

\* SensorDataConsumer._flush_buffer (consumer.py:74-98) of one run when
\* bulk_insert_samples succeeds (ok) or raises: the consumer, the samples
\* table and the number inserted
flush_buffer(c, rows, run_id, ok) ==
    IF c.buffer[run_id] = <<>> \/ ~ok
    THEN [consumer |-> c, rows |-> rows, inserted |-> 0]
    ELSE [consumer |-> [c EXCEPT !.buffer[run_id] = <<>>],
          rows |-> rows \cup { c.buffer[run_id][k] : k \in 1..Len(c.buffer[run_id]) },
          inserted |-> Len(c.buffer[run_id])]

RECURSIVE flush_runs(_, _, _, _)
\* the loop of _flush_all_buffers over the runs of the set keys
flush_runs(c, rows, keys, ok) ==
    IF keys = {}
    THEN [consumer |-> c, rows |-> rows, total |-> 0, all_succeeded |-> TRUE]
    ELSE LET run_id == SetMin(keys)
             one == flush_buffer(c, rows, run_id, ok[run_id])
             rest == flush_runs(one.consumer, one.rows, keys \ {run_id}, ok)
         IN  [consumer |-> rest.consumer, rows |-> rest.rows,
              total |-> one.inserted + rest.total,
              all_succeeded |->
                  /\ rest.all_succeeded
                  /\ ~(one.inserted = 0 /\ Len(one.consumer.buffer[run_id]) > 0)]

\* SensorDataConsumer._flush_all_buffers (consumer.py:100-111)
flush_all_buffers(c, rows, ok) == flush_runs(c, rows, RunIds, ok)

\* SensorDataConsumer._process_message (consumer.py:113-153) on the message
\* at an offset: a message that cannot be parsed is counted and dropped
process_message(c, rows, log, offset, ok) ==
    IF ~log[offset].parses
    THEN [consumer |-> c, rows |-> rows]
    ELSE LET run_id == log[offset].run_id
             c1 == [c EXCEPT !.buffer[run_id] = Append(@, offset),
                             !.messages_processed = @ + 1]
         IN  IF Len(c1.buffer[run_id]) >= c1.batch_size
             THEN LET one == flush_buffer(c1, rows, run_id, ok)
                  IN  [consumer |-> one.consumer, rows |-> one.rows]
             ELSE [consumer |-> c1, rows |-> rows]

\* ---- inputs of the SensorDataConsumer ----------------------------------

\* a message of run 1 or run 2, or one that _process_message cannot parse
Messages ==
    { [run_id |-> r, parses |-> TRUE] : r \in RunIds }
    \cup { [run_id |-> 1, parses |-> FALSE] }

Logs == UNION { [1..n -> Messages] : n \in 0..MaxMessages }

\* batch_size, which is max_poll_records too (consumer.py:58)
BatchSizes == {1, 2}

\* max_messages of consume: no limit, or a limit
MessageLimits == { None, Some(1), Some(2) }

Outcomes == [RunIds -> BOOLEAN]

ConsumerInit ==
    /\ broker \in { [log |-> l, position |-> 0, committed |-> 0] : l \in Logs }
    /\ consumer \in { [NoConsumer EXCEPT !.batch_size = b] : b \in BatchSizes }
    /\ sample_rows = {}
    /\ summary = NewSummary(PASS)
    /\ finalized = FALSE
    /\ thresholds = DEFAULT_THRESHOLDS
    /\ call = NoCall
    /\ despiker = DefaultDespiker
    /\ dcall = NoCall
    /\ resampler = DefaultResampler
    /\ rcall = NoCall
    /\ db = EmptyDatabase
    /\ save = NoSave
    /\ acalc = DefaultAeroCalculator
    /\ acall = NoCall
    /\ class_thresholds = DEFAULT_THRESHOLDS
    /\ procs = NoProcessors
    /\ frames = NoFrames
    /\ run_rows = <<>>
    /\ creators = NoCreators
    /\ request = NoRequest
    /\ helper = NoHelper

\* consume(max_messages, max_time_seconds) is called (consumer.py:155-181)
Consume ==
    /\ consumer.pc = "idle"
    /\ \E max_messages \in MessageLimits :
          consumer' = [consumer EXCEPT !.pc = "loop", !.running = TRUE,
                                       !.messages_processed = 0,
                                       !.max_messages = max_messages]
    /\ UNCHANGED <<broker, sample_rows>>
    /\ UNCHANGED notConsumer

\* the while condition fails, or the time limit is reached
\* (consumer.py:182-187): the loop is left
LeaveLoop ==
    /\ consumer.pc = "loop"
    /\ consumer' = [consumer EXCEPT !.pc = "finally"]
    /\ UNCHANGED <<broker, sample_rows>>
    /\ UNCHANGED notConsumer

\* consumer.py:189-190: poll returns the next records, batch_size at most
Poll ==
    /\ consumer.pc = "loop"
    /\ consumer.running
    /\ \E n \in 0..Min(consumer.batch_size, Len(broker.log) - broker.position) :
          /\ consumer' = [consumer EXCEPT !.pc = "records",
                             !.records = [k \in 1..n |-> broker.position + k]]
          /\ broker' = [broker EXCEPT !.position = @ + n]
    /\ UNCHANGED sample_rows
    /\ UNCHANGED notConsumer

\* consumer.py:192-202: the next record is processed and the message limit
\* is checked; past the last record, or at the limit, the loops are left
ProcessMessage ==
    /\ consumer.pc = "records"
    /\ IF consumer.records = <<>>
       THEN /\ consumer' = [consumer EXCEPT !.pc = "flush"]
            /\ UNCHANGED sample_rows
       ELSE \E ok \in BOOLEAN :
               LET r == process_message(consumer, sample_rows, broker.log,
                                        Head(consumer.records), ok)
                   c == [r.consumer EXCEPT !.records = Tail(@)]
               IN  /\ sample_rows' = r.rows
                   /\ consumer' =
                         IF c.max_messages # None
                            /\ c.messages_processed >= c.max_messages[1]
                         THEN [c EXCEPT !.running = FALSE, !.pc = "flush"]
                         ELSE c
    /\ UNCHANGED broker
    /\ UNCHANGED notConsumer

\* consumer.py:204-213: on a timeout or a full buffer every buffer is
\* flushed, and the position is committed when no flush failed and a sample
\* was inserted
FlushAndCommit ==
    /\ consumer.pc = "flush"
    /\ \E flush_needed \in BOOLEAN, ok \in Outcomes :
          IF flush_needed
             \/ \E r \in RunIds : Len(consumer.buffer[r]) >= consumer.batch_size
          THEN LET fl == flush_all_buffers(consumer, sample_rows, ok)
               IN  /\ consumer' = [fl.consumer EXCEPT !.pc = "loop"]
                   /\ sample_rows' = fl.rows
                   /\ broker' = IF fl.all_succeeded /\ fl.total > 0
                                THEN [broker EXCEPT !.committed = broker.position]
                                ELSE broker
          ELSE /\ consumer' = [consumer EXCEPT !.pc = "loop"]
               /\ UNCHANGED <<broker, sample_rows>>
    /\ UNCHANGED notConsumer

\* stop() (consumer.py:250-252), from a signal handler or another thread
Stop ==
    /\ consumer.pc \in {"loop", "records", "flush"}
    /\ consumer.running
    /\ consumer' = [consumer EXCEPT !.running = FALSE]
    /\ UNCHANGED <<broker, sample_rows>>
    /\ UNCHANGED notConsumer

\* KeyboardInterrupt inside the loop (consumer.py:223-224)
KeyboardInterrupt ==
    /\ consumer.pc \in {"loop", "records", "flush"}
    /\ consumer' = [consumer EXCEPT !.pc = "finally"]
    /\ UNCHANGED <<broker, sample_rows>>
    /\ UNCHANGED notConsumer

\* consumer.py:225-228: the final flush, and the commit after it
FinalFlush ==
    /\ consumer.pc = "finally"
    /\ \E ok \in Outcomes :
          LET fl == flush_all_buffers(consumer, sample_rows, ok)
          IN  /\ consumer' = [fl.consumer EXCEPT !.pc = "stopped", !.running = FALSE]
              /\ sample_rows' = fl.rows
    /\ broker' = [broker EXCEPT !.committed = broker.position]
    /\ UNCHANGED notConsumer

-----------------------------------------------------------------------------
\* The runs table (src/src/db/operations.py:170-275).  db.runs[r] is the
\* state_id of the run with run_id r, 0 while no such row exists; run_rows
\* holds run_id, session_id and run_number of the rows in insertion order.
\* run_id is an IDENTITY column.  Timestamps and setpoints are left out.

\* get_next_run_number (operations.py:170-176)
get_next_run_number(rows, session_id) ==
    SetMax({0} \cup { rows[i].run_number :
                        i \in { k \in 1..Len(rows) : rows[k].session_id = session_id } })
    + 1

\* the INSERT of create_run (operations.py:213-234): the new row is in
\* state 1 (draft)
insert_run(d, rows, run_number, session_id) ==
    LET run_id == Len(rows) + 1
    IN  [db |-> [d EXCEPT !.runs[run_id] = 1],
         rows |-> Append(rows, [run_id |-> run_id, session_id |-> session_id,
                                run_number |-> run_number]),
         run_id |-> run_id]

\* start_run (operations.py:237-243)
start_run(d, run_id) ==
    IF d.runs[run_id] = 0 THEN d ELSE [d EXCEPT !.runs[run_id] = 2]

\* complete_run (operations.py:246-275)
complete_run(d, run_id) ==
    IF d.runs[run_id] = 0 THEN d ELSE [d EXCEPT !.runs[run_id] = 3]

\* ---- inputs ---------------------------------------------------------------

\* session_id of create_run: none, or one of two sessions
SessionIds == { None, Some(1), Some(2) }

\* a database without runs
NoRuns == { [d EXCEPT !.runs = [r \in RunIds |-> 0]] : d \in Databases }

RunsInit ==
    /\ db \in NoRuns
    /\ save = NoSave
    /\ run_rows = <<>>
    /\ creators = NoCreators
    /\ summary = NewSummary(PASS)
    /\ finalized = FALSE
    /\ thresholds = DEFAULT_THRESHOLDS
    /\ call = NoCall
    /\ despiker = DefaultDespiker
    /\ dcall = NoCall
    /\ resampler = DefaultResampler
    /\ rcall = NoCall
    /\ acalc = DefaultAeroCalculator
    /\ acall = NoCall
    /\ class_thresholds = DEFAULT_THRESHOLDS
    /\ procs = NoProcessors
    /\ frames = NoFrames
    /\ broker = NoBroker
    /\ consumer = NoConsumer
    /\ sample_rows = {}
    /\ request = NoRequest
    /\ helper = NoHelper

\* the create_run calls under way
Creating == { c \in Clients : creators[c].pc # "idle" }

\* create_run(run_name, session_id) is called (operations.py:211): without a
\* session the run number is 1
CreateRun ==
    /\ \E c \in Clients, session_id \in SessionIds :
          /\ creators[c].pc = "idle"
          /\ Len(run_rows) + Cardinality(Creating) < Cardinality(RunIds)
          /\ creators' = [creators EXCEPT ![c] =
                IF session_id = None
                THEN [pc |-> "insert", session_id |-> session_id, run_number |-> 1]
                ELSE [pc |-> "number", session_id |-> session_id]]
    /\ UNCHANGED <<db, save, run_rows>>
    /\ UNCHANGED notRunsOrSave

\* operations.py:211, 170-176: the query of get_next_run_number, in a
\* connection of its own
GetNextRunNumber ==
    /\ \E c \in Clients :
          /\ creators[c].pc = "number"
          /\ creators' = [creators EXCEPT ![c] =
                [pc |-> "insert", session_id |-> creators[c].session_id,
                 run_number |-> get_next_run_number(run_rows, creators[c].session_id)]]
    /\ UNCHANGED <<db, save, run_rows>>
    /\ UNCHANGED notRunsOrSave

\* operations.py:213-234: the row is inserted and committed, and create_run
\* returns its run_id
InsertRun ==
    /\ \E c \in Clients :
          /\ creators[c].pc = "insert"
          /\ LET r == insert_run(db, run_rows, creators[c].run_number,
                                 creators[c].session_id)
             IN  /\ db' = r.db
                 /\ run_rows' = r.rows
          /\ creators' = [creators EXCEPT ![c] = [pc |-> "idle"]]
    /\ UNCHANGED save
    /\ UNCHANGED notRunsOrSave

\* start_run of a run that was created
StartRun ==
    /\ \E run_id \in RunIds :
          /\ db.runs[run_id] = 1
          /\ db' = start_run(db, run_id)
    /\ UNCHANGED <<save, run_rows, creators>>
    /\ UNCHANGED notRunsOrSave

\* complete_run of a run that was started
CompleteRun ==
    /\ \E run_id \in RunIds :
          /\ db.runs[run_id] = 2
          /\ db' = complete_run(db, run_id)
    /\ UNCHANGED <<save, run_rows, creators>>
    /\ UNCHANGED notRunsOrSave

\* save_results (processor.py:245) is called with the result of a run that
\* was completed and has nothing saved yet
SaveResultsOfRun ==
    /\ save.pc = "idle"
    /\ save.saves < MaxSaves
    /\ \E result \in ProcessingResults :
          /\ db.runs[result.run_id] = 3
          /\ RowsOf(db.run_statistics, result.run_id) = <<>>
          /\ save' = [pc |-> "statistics", saves |-> save.saves, last |-> save.last,
                      result |-> result, i |-> 0, rule_id |-> None,
                      before |-> db, again |-> (save.last = Some(result))]
    /\ db' = [db EXCEPT !.now = @ + 1]
    /\ UNCHANGED <<run_rows, creators>>
    /\ UNCHANGED notRunsOrSave

-----------------------------------------------------------------------------
\* scripts/admin_fulfill_demo_request.py: main() on one demo request.  The
\* helper calls create_run, start_run and complete_run above, and runs
\* scripts/process_run.py, which ends in RunProcessor.save_results.

\* update_demo_run_request_status (operations.py:83-98)
update_demo_run_request_status(req, status) == [req EXCEPT !.status = status]

\* attach_run_to_demo_request (operations.py:101-106)
attach_run_to_demo_request(req, run_id) == [req EXCEPT !.run_id = Some(run_id)]

\* the session create_test_session returns (admin_fulfill_demo_request.py:160)
DemoSession == Some(1)

\* the statuses a request is found in
RequestStatuses == {"pending", "approved", "running", "completed", "rejected", "failed"}

FulfilInit ==
    /\ request \in { [status |-> st, run_id |-> None] : st \in RequestStatuses }
    /\ helper = NoHelper
    /\ db \in NoRuns
    /\ save = NoSave
    /\ run_rows = <<>>
    /\ creators = NoCreators
    /\ summary = NewSummary(PASS)
    /\ finalized = FALSE
    /\ thresholds = DEFAULT_THRESHOLDS
    /\ call = NoCall
    /\ despiker = DefaultDespiker
    /\ dcall = NoCall
    /\ resampler = DefaultResampler
    /\ rcall = NoCall
    /\ acalc = DefaultAeroCalculator
    /\ acall = NoCall
    /\ class_thresholds = DEFAULT_THRESHOLDS
    /\ procs = NoProcessors
    /\ frames = NoFrames
    /\ broker = NoBroker
    /\ consumer = NoConsumer
    /\ sample_rows = {}

\* the steps of main inside its try block
InTry == {"create", "attach", "stream", "complete", "process", "processing", "finish"}

\* main is called, with --force or without, for a request with a valid or
\* an invalid variant (admin_fulfill_demo_request.py:107-129): the request is
\* read and the guards are passed, or main returns 2
Fulfil ==
    /\ helper.pc = "idle"
    /\ \E force \in BOOLEAN, valid_variant \in BOOLEAN :
          helper' = [pc |-> IF (request.status \in {"completed", "rejected"} /\ ~force)
                               \/ ~valid_variant
                            THEN "exit" ELSE "mark",
                     force |-> force, before |-> request, marked |-> FALSE,
                     run_id |-> None]
    /\ UNCHANGED <<request, db, save, run_rows, creators>>
    /\ UNCHANGED notHelperOrRuns

\* admin_fulfill_demo_request.py:132, before the try block: the update, or
\* its exception, which leaves main
MarkRunning ==
    /\ helper.pc = "mark"
    /\ \E ok \in BOOLEAN :
          IF ok
          THEN /\ request' = update_demo_run_request_status(request, "running")
               /\ helper' = [helper EXCEPT !.pc = "create", !.marked = TRUE]
          ELSE /\ helper' = [helper EXCEPT !.pc = "exit"]
               /\ UNCHANGED request
    /\ UNCHANGED <<db, save, run_rows, creators>>
    /\ UNCHANGED notHelperOrRuns

\* admin_fulfill_demo_request.py:160-172: the session and the run are created
HelperCreateRun ==
    /\ helper.pc = "create"
    /\ Len(run_rows) < Cardinality(RunIds)
    /\ LET r == insert_run(db, run_rows,
                           get_next_run_number(run_rows, DemoSession), DemoSession)
       IN  /\ db' = r.db
           /\ run_rows' = r.rows
           /\ helper' = [helper EXCEPT !.pc = "attach", !.run_id = Some(r.run_id)]
    /\ UNCHANGED <<request, save, creators>>
    /\ UNCHANGED notHelperOrRuns

\* admin_fulfill_demo_request.py:173-174
HelperAttachAndStart ==
    /\ helper.pc = "attach"
    /\ request' = attach_run_to_demo_request(request, helper.run_id[1])
    /\ db' = start_run(db, helper.run_id[1])
    /\ helper' = [helper EXCEPT !.pc = "stream"]
    /\ UNCHANGED <<save, run_rows, creators>>
    /\ UNCHANGED notHelperOrRuns

\* admin_fulfill_demo_request.py:176-208: the samples are streamed and the
\* ingestion is waited for, till the target or the timeout
HelperStream ==
    /\ helper.pc = "stream"
    /\ helper' = [helper EXCEPT !.pc = "complete"]
    /\ UNCHANGED <<request, db, save, run_rows, creators>>
    /\ UNCHANGED notHelperOrRuns

\* admin_fulfill_demo_request.py:209
HelperComplete ==
    /\ helper.pc = "complete"
    /\ db' = complete_run(db, helper.run_id[1])
    /\ helper' = [helper EXCEPT !.pc = "process"]
    /\ UNCHANGED <<request, save, run_rows, creators>>
    /\ UNCHANGED notHelperOrRuns

\* admin_fulfill_demo_request.py:212-215: scripts/process_run.py is started
\* and reaches save_results with the result of the run
HelperProcess ==
    /\ helper.pc = "process"
    /\ save.pc = "idle"
    /\ \E result \in ProcessingResults :
          /\ result.run_id = helper.run_id[1]
          /\ save' = [pc |-> "statistics", saves |-> save.saves, last |-> save.last,
                      result |-> result, i |-> 0, rule_id |-> None,
                      before |-> db, again |-> (save.last = Some(result))]
    /\ db' = [db EXCEPT !.now = @ + 1]
    /\ helper' = [helper EXCEPT !.pc = "processing"]
    /\ UNCHANGED <<request, run_rows, creators>>
    /\ UNCHANGED notHelperOrRuns

\* the subprocess has ended: with check=True a failure raises
HelperProcessed ==
    /\ helper.pc = "processing"
    /\ save.pc = "idle"
    /\ helper' = [helper EXCEPT !.pc = IF save.last = None THEN "except" ELSE "finish"]
    /\ UNCHANGED <<request, db, save, run_rows, creators>>
    /\ UNCHANGED notHelperOrRuns

\* admin_fulfill_demo_request.py:218-236: the update to completed, and
\* return 0; when the update raises, the handler is entered
MarkCompleted ==
    /\ helper.pc = "finish"
    /\ \E ok \in BOOLEAN :
          IF ok
          THEN /\ request' = update_demo_run_request_status(request, "completed")
               /\ helper' = [helper EXCEPT !.pc = "finally"]
          ELSE /\ helper' = [helper EXCEPT !.pc = "except"]
               /\ UNCHANGED request
    /\ UNCHANGED <<db, save, run_rows, creators>>
    /\ UNCHANGED notHelperOrRuns

\* a step in the try block raises an Exception (Kafka or the database is
\* not reachable, ...)
HelperRaises ==
    /\ helper.pc \in InTry \ {"processing"}
    /\ helper' = [helper EXCEPT !.pc = "except"]
    /\ UNCHANGED <<request, db, save, run_rows, creators>>
    /\ UNCHANGED notHelperOrRuns

\* Ctrl-C while main is in the try block or in its handler:
\* KeyboardInterrupt is no Exception, `except Exception`
\* (admin_fulfill_demo_request.py:238) does not catch it
HelperInterrupted ==
    /\ helper.pc \in (InTry \ {"processing"}) \cup {"except"}
    /\ helper' = [helper EXCEPT !.pc = "finally"]
    /\ UNCHANGED <<request, db, save, run_rows, creators>>
    /\ UNCHANGED notHelperOrRuns

\* admin_fulfill_demo_request.py:238-240: the update to failed, which can
\* raise itself, and the exception is raised again
MarkFailed ==
    /\ helper.pc = "except"
    /\ \E ok \in BOOLEAN :
          request' = IF ok THEN update_demo_run_request_status(request, "failed")
                     ELSE request
    /\ helper' = [helper EXCEPT !.pc = "finally"]
    /\ UNCHANGED <<db, save, run_rows, creators>>
    /\ UNCHANGED notHelperOrRuns

\* admin_fulfill_demo_request.py:242-256: the consumer is stopped and main
\* is left
HelperExit ==
    /\ helper.pc = "finally"
    /\ helper' = [helper EXCEPT !.pc = "exit"]
    /\ UNCHANGED <<request, db, save, run_rows, creators>>
    /\ UNCHANGED notHelperOrRuns


(***************************************************************************)
(* Specifications.                                                         *)
(***************************************************************************)
\* a QCSummary under add_check and finalize
SummaryNext == AddCheck \/ Finalize
SpecSummary == SummaryInit /\ [][SummaryNext]_vars

\* a QCEngine and its caller
EngineNext ==
    \/ RunAllChecks
    \/ CheckMissingSamples
    \/ CheckFlatline
    \/ CheckTimestampGaps
    \/ Return
SpecEngine == EngineInit /\ [][EngineNext]_vars

\* a Despiker and its caller
DespikerNext == Despike \/ DespikeAgain \/ DespikeReturn
SpecDespiker == DespikerInit /\ [][DespikerNext]_vars

\* the Resampler: channels aligned on a common axis
ResamplerNext == ResampleChannel \/ AlignChannels \/ ResamplerReturn
SpecResampler == ResamplerInit /\ [][ResamplerNext]_vars

\* save_results, call after call, on one database
SaveNext ==
    \/ SaveResults
    \/ SaveRunStatistics
    \/ SaveQcSummary
    \/ GetOrCreateQcRuleId
    \/ SaveQcResult
    \/ SaveFails
    \/ SaveReturn
SpecSave == SaveInit /\ [][SaveNext]_vars

\* the AeroCalculator: process_run, call after call
AeroNext == ProcessRun \/ AeroReturn
SpecAero == AeroInit /\ [][AeroNext]_vars

\* one RunProcessor: process_from_samples, call after call
PipelineNext ==
    \/ ProcessFromSamples
    \/ PipelineResample
    \/ PipelineAlign
    \/ PipelineDespike
    \/ PipelineAero
    \/ PipelineQC
    \/ PipelineReturn
SpecPipeline == PipelineInit /\ [][PipelineNext]_vars

\* RunProcessors and QCEngines created at any time, and two invocations of
\* process_from_samples step by step in any interleaving
ConcurrentNext ==
    \/ NewQCEngine
    \/ CreateRunProcessor
    \/ ConcurrentProcessFromSamples
    \/ PipelineResample
    \/ PipelineAlign
    \/ PipelineDespike
    \/ PipelineAero
    \/ PipelineQC
    \/ PipelineReturn
SpecConcurrent == ConcurrentInit /\ [][ConcurrentNext]_vars

\* a SensorDataConsumer: one consume call on a topic
ConsumerNext ==
    \/ Consume
    \/ LeaveLoop
    \/ Poll
    \/ ProcessMessage
    \/ FlushAndCommit
    \/ Stop
    \/ KeyboardInterrupt
    \/ FinalFlush
SpecConsumer == ConsumerInit /\ [][ConsumerNext]_vars

\* the runs of a database from create_run to save_results
RunsNext ==
    \/ CreateRun
    \/ GetNextRunNumber
    \/ InsertRun
    \/ StartRun
    \/ CompleteRun
    \/ SaveResultsOfRun
    \/ SaveRunStatistics
    \/ SaveQcSummary
    \/ GetOrCreateQcRuleId
    \/ SaveQcResult
    \/ SaveFails
    \/ SaveReturn
SpecRuns == RunsInit /\ [][RunsNext]_vars

\* one invocation of the demo-request helper
FulfilNext ==
    \/ Fulfil
    \/ MarkRunning
    \/ HelperCreateRun
    \/ HelperAttachAndStart
    \/ HelperStream
    \/ HelperComplete
    \/ HelperProcess
    \/ SaveRunStatistics
    \/ SaveQcSummary
    \/ GetOrCreateQcRuleId
    \/ SaveQcResult
    \/ SaveFails
    \/ SaveReturn
    \/ HelperProcessed
    \/ MarkCompleted
    \/ HelperRaises
    \/ HelperInterrupted
    \/ MarkFailed
    \/ HelperExit
SpecFulfil == FulfilInit /\ [][FulfilNext]_vars

(***************************************************************************)
(* Claims.                                                                 *)
(***************************************************************************)
HasStatus(checks, st) == \E i \in 1..Len(checks) : checks[i].status = st

NotSkipped(check) == check.status # SKIP

\* a fresh summary given the checks one by one and finalized
RECURSIVE AddAll(_, _)
AddAll(s, checks) ==
    IF checks = <<>> THEN s ELSE AddAll(add_check(s, Head(checks)), Tail(checks))

Rebuilt(checks) == finalize(AddAll(NewSummary(PASS), checks))

\* C1: after add_check calls followed by finalize, overall_status is FAIL iff
\* some added check is FAIL, WARN iff none is FAIL and some is WARN, PASS
\* otherwise; and it is the status of the same summary without its SKIP checks.
C1_OverallStatus ==
    finalized =>
        /\ summary.overall_status = FAIL <=> HasStatus(summary.checks, FAIL)
        /\ summary.overall_status = WARN <=>
              (~HasStatus(summary.checks, FAIL) /\ HasStatus(summary.checks, WARN))
        /\ summary.overall_status = PASS <=>
              (~HasStatus(summary.checks, FAIL) /\ ~HasStatus(summary.checks, WARN))
        /\ summary.overall_status =
              Rebuilt(SelectSeq(summary.checks, NotSkipped)).overall_status

\* a finalized summary holding a SKIP, a WARN and a PASS check: WARN overall
C1_Witness ==
    /\ finalized
    /\ HasStatus(summary.checks, SKIP)
    /\ HasStatus(summary.checks, WARN)
    /\ HasStatus(summary.checks, PASS)
    /\ summary.overall_status = WARN

\* the number of checks of a summary with the rule code, for the channel
\* (None: whatever the channel)
NumChecks(s, code, channel) ==
    Cardinality({ i \in 1..Len(s.checks) :
                    /\ s.checks[i].rule_code = code
                    /\ channel # None => s.checks[i].channel_id = channel })

IsRunAllChecks == call.op = "run_all_checks"

\* C4 as stated: one MISS-DATA check, one SPIKE-DET and one FLAT-DET check per
\* channel present and one TS-GAP check, for every number of channels and
\* whatever spike_counts holds.
C4_AsStated ==
    IsRunAllChecks =>
        /\ NumChecks(call.result, "MISS-DATA", None) = 1
        /\ NumChecks(call.result, "TS-GAP", None) = 1
        /\ \A i \in 1..Len(call.channel_data) :
              LET ch == Some(call.channel_data[i].id)
              IN  /\ NumChecks(call.result, "SPIKE-DET", ch) = 1
                  /\ NumChecks(call.result, "FLAT-DET", ch) = 1

\* C4 amended: one MISS-DATA check; one FLAT-DET check per channel present; one
\* SPIKE-DET check for each channel present that has an entry in spike_counts
\* and none for the others; one TS-GAP check when there is at least one
\* channel and none for an empty dataset; and no other check.
C4_ChecksPerChannel ==
    IsRunAllChecks =>
        LET n == Len(call.channel_data)
            counted == { i \in 1..n :
                           /\ ~call.spike_counts.none
                           /\ call.channel_data[i].id \in DOMAIN call.spike_counts.counts }
        IN  /\ NumChecks(call.result, "MISS-DATA", None) = 1
            /\ NumChecks(call.result, "TS-GAP", None) = (IF n = 0 THEN 0 ELSE 1)
            /\ \A i \in 1..n :
                  LET ch == Some(call.channel_data[i].id)
                  IN  /\ NumChecks(call.result, "FLAT-DET", ch) = 1
                      /\ NumChecks(call.result, "SPIKE-DET", ch) =
                            (IF i \in counted THEN 1 ELSE 0)
            /\ Len(call.result.checks) =
                  1 + n + Cardinality(counted) + (IF n = 0 THEN 0 ELSE 1)

\* two channels, of which only the second has a spike count
C4_Witness ==
    /\ IsRunAllChecks
    /\ Len(call.channel_data) = 2
    /\ ~call.spike_counts.none
    /\ call.channel_data[1].id \notin DOMAIN call.spike_counts.counts
    /\ call.channel_data[2].id \in DOMAIN call.spike_counts.counts
    /\ NumChecks(call.result, "SPIKE-DET", None) = 1
    /\ NumChecks(call.result, "TS-GAP", None) = 1

\* C6 as stated: exactly one recommendation when some check is WARN or FAIL,
\* none when every check is PASS or SKIP.
C6_AsStated ==
    IsRunAllChecks =>
        Len(call.result.recommendations) =
            (IF HasStatus(call.result.checks, WARN) \/ HasStatus(call.result.checks, FAIL)
             THEN 1 ELSE 0)

\* C6 amended: the recommendations are two entries when some check is FAIL
\* plus one entry when some check is WARN; the list is empty when every check
\* is PASS or SKIP, and its length depends on which of WARN and FAIL are
\* present, not on how many checks warned or failed.
C6_Recommendations ==
    IsRunAllChecks =>
        Len(call.result.recommendations) =
            (IF HasStatus(call.result.checks, FAIL) THEN 2 ELSE 0)
            + (IF HasStatus(call.result.checks, WARN) THEN 1 ELSE 0)

\* several checks failed and several warned: three recommendations
C6_Witness ==
    /\ IsRunAllChecks
    /\ call.result.failed_checks >= 2
    /\ call.result.warning_checks >= 2
    /\ Len(call.result.recommendations) = 3

IsCheckMissing == call.op = "check_missing_samples"

\* C7: with expected > 0 the measured value is max(0, 100*(expected-actual)/
\* expected), the status is FAIL iff it is >= missing_fail, WARN iff it is
\* >= missing_warn and < missing_fail, PASS otherwise (1000/950 gives 5.0 and
\* FAIL, actual > expected gives 0 and PASS); expected = 0 gives SKIP with no
\* measured value.
C7_MissingSamples ==
    IsCheckMissing =>
        LET e == call.expected
            a == call.actual
            r == call.result
            lost == IF a < e THEN e - a ELSE 0
            \* 100*lost/e >= tenths/10
            AtLeast(tenths) == 1000 * lost >= tenths * e
        IN  /\ e = 0 => (r.status = SKIP /\ r.measured_value = None)
            /\ e > 0 =>
                  /\ r.measured_value # None
                  /\ r.measured_value[1] * e = 100 * lost * r.measured_value[2]
                  /\ r.measured_value[2] > 0
                  /\ r.status = FAIL <=> AtLeast(thresholds.missing_fail)
                  /\ r.status = WARN <=>
                        (AtLeast(thresholds.missing_warn)
                         /\ ~AtLeast(thresholds.missing_fail))
                  /\ r.status = PASS <=>
                        (~AtLeast(thresholds.missing_warn)
                         /\ ~AtLeast(thresholds.missing_fail))
            /\ (e = 1000 /\ a = 950 /\ thresholds = DEFAULT_THRESHOLDS) =>
                  (r.measured_value[1] = 5 * r.measured_value[2] /\ r.status = FAIL)
            /\ (e > 0 /\ a > e /\ thresholds = DEFAULT_THRESHOLDS) =>
                  (r.measured_value[1] = 0 /\ r.status = PASS)

\* expected=1000, actual=950 under the default thresholds: exactly 5 %, FAIL
C7_Witness ==
    /\ IsCheckMissing
    /\ thresholds = DEFAULT_THRESHOLDS
    /\ call.expected = 1000
    /\ call.actual = 950
    /\ call.result.status = FAIL

IsCheckFlatline == call.op = "check_flatline"

\* C5 as stated: for >= 10 values the measured duration is the number of values
\* in the longest run of identical consecutive values times the median sample
\* interval, and the status is FAIL iff that duration is >= flatline_duration;
\* a value held for 100 samples at 100 Hz is measured >= 1.0 s and FAIL.
C5_AsStated ==
    (IsCheckFlatline /\ Len(call.v) >= 10) =>
        LET held == Max(call.run, 1)       \* values in the longest run
            r == call.result
        IN  /\ r.measured_value[1] = held * call.dt * r.measured_value[2]
            /\ r.status = FAIL <=> held * call.dt >= thresholds.flatline_duration
            /\ (call.run = 100 /\ call.dt = 10
                /\ thresholds.flatline_duration = 1000) =>
                  /\ r.measured_value[1] >= 1000 * r.measured_value[2]
                  /\ r.status = FAIL

IsDespiked == dcall.op \in {"despike", "despike_again"}

IsGlobal == despiker.window_size = None

\* more than half of the values are one and the same value
MajorityEqual(values) ==
    \E i \in 1..Len(values) :
        2 * Cardinality({ j \in 1..Len(values) : values[j] = values[i] }) > Len(values)

\* C8 as stated: for every input series, despike (global mode) applied to the
\* cleaned output of a previous despike flags zero spikes and returns the
\* cleaned series unchanged.
C8_AsStated ==
    (dcall.op = "despike_again" /\ IsGlobal) =>
        /\ dcall.second.spike_count = 0
        /\ dcall.second.cleaned = dcall.first.cleaned

\* C9: when the MAD used for the decision is 0 no spike is declared, for any
\* threshold: in global mode a series whose MAD is 0 (for one, a series more
\* than half of whose values are equal) gets an all-false mask and spike_count
\* 0; in sliding-window mode an index whose window has MAD 0 is not flagged.
C9_ZeroMadNoSpike ==
    IsDespiked =>
        LET values == dcall.values
            r == dcall.first
            Unflagged == /\ \A i \in 1..Len(values) : ~r.spike_mask[i]
                         /\ r.spike_count = 0
        IN  IF IsGlobal
            THEN /\ (Len(values) > 0 /\ calculate_mad(values).mad4 = 0) => Unflagged
                 /\ MajorityEqual(values) => Unflagged
            ELSE \A i \in 1..Len(values) :
                    calculate_mad(Window(despiker, values, i)).mad4 = 0
                        => ~r.spike_mask[i]

\* a series more than half of whose values are equal, with a value four units
\* away from them, in global mode: nothing is flagged
C9_Witness ==
    /\ IsDespiked
    /\ IsGlobal
    /\ calculate_mad(dcall.values).mad4 = 0
    /\ \E i, j \in 1..Len(dcall.values) :
          Abs(dcall.values[i] - dcall.values[j]) = 4 * Unit
    /\ dcall.first.spike_count = 0

\* twice the distance of x from the median of the series
Deviation2(values, x) == Abs(2 * x - calculate_mad(values).median2)

\* |x - median| > threshold * MAD * 1.4826
Beyond(values, x) ==
    2 * BoundDen(despiker) * Deviation2(values, x)
        > BoundNum(despiker) * calculate_mad(values).mad4

\* |x - median| = threshold * MAD * 1.4826
OnBound(values, x) ==
    2 * BoundDen(despiker) * Deviation2(values, x)
        = BoundNum(despiker) * calculate_mad(values).mad4

\* C10: in global mode with MAD > 0, sample i is flagged iff
\* |x_i - median(x)| > threshold*MAD*1.4826; a sample on the bound is not
\* flagged, on the high side and on the low side.
C10_StrictBound ==
    (IsDespiked /\ IsGlobal /\ calculate_mad(dcall.values).mad4 > 0) =>
        \A i \in 1..Len(dcall.values) :
            /\ dcall.first.spike_mask[i] <=> Beyond(dcall.values, dcall.values[i])
            /\ OnBound(dcall.values, dcall.values[i]) => ~dcall.first.spike_mask[i]

\* one sample exactly on the upper bound, one exactly on the lower bound,
\* neither flagged, and a third sample beyond the bound, flagged
C10_Witness ==
    /\ IsDespiked
    /\ IsGlobal
    /\ calculate_mad(dcall.values).mad4 > 0
    /\ \E i, j, k \in 1..Len(dcall.values) :
          /\ OnBound(dcall.values, dcall.values[i])
          /\ OnBound(dcall.values, dcall.values[j])
          /\ dcall.values[i] < dcall.values[j]
          /\ ~dcall.first.spike_mask[i]
          /\ ~dcall.first.spike_mask[j]
          /\ dcall.first.spike_mask[k]

IsAligned == rcall.op = "align_channels"

\* the latest channel start is after the earliest channel end
NonOverlapping(resampled_data) ==
    /\ DOMAIN resampled_data # {}
    /\ SetMax({ resampled_data[c].times[1] : c \in DOMAIN resampled_data })
         > SetMin({ resampled_data[c].times[Len(resampled_data[c].times)] :
                    c \in DOMAIN resampled_data })

\* C3 as stated: align_channels on channels whose time ranges do not overlap
\* returns a zero-length time axis and zero-length value arrays, for every
\* size of the gap, and never raises and never returns extrapolated points.
C3_AsStated ==
    (IsAligned /\ NonOverlapping(rcall.resampled_data)) =>
        /\ ~rcall.result.raised
        /\ rcall.result.common_time = <<>>
        /\ \A c \in DOMAIN rcall.resampled_data : rcall.result.aligned[c] = <<>>

\* the persisted state of a run: its run_statistics rows and its qc_summaries
\* rows, without the time they were written at, and its qc_results rows
Persisted(d, run_id) ==
    LET Columns(table) ==
            [i \in 1..Len(table) |->
                [key |-> table[i].key, run_id |-> table[i].run_id,
                 cols |-> table[i].cols]]
    IN  [run_statistics |-> Columns(RowsOf(d.run_statistics, run_id)),
         qc_summaries |-> Columns(RowsOf(d.qc_summaries, run_id)),
         qc_results |-> RowsOf(d.qc_results, run_id)]

\* two rows of qc_results for the same run, rule and channel
DuplicateResult(d, run_id) ==
    \E i, j \in 1..Len(d.qc_results) :
        /\ i < j
        /\ d.qc_results[i].run_id = run_id
        /\ d.qc_results[j].run_id = run_id
        /\ d.qc_results[i].rule_id = d.qc_results[j].rule_id
        /\ d.qc_results[i].channel_id = d.qc_results[j].channel_id

\* C2 as stated: when save_results has run a second time with the
\* ProcessingResult it was last called with, the run_statistics row, the
\* qc_summaries row and the qc_results rows of the run are those the first
\* call left, and no table has a second row for the same run and check.
C2_AsStated ==
    (save.pc = "done" /\ save.again) =>
        /\ Persisted(db, save.result.run_id)
             = Persisted(save.before, save.result.run_id)
        /\ ~DuplicateResult(db, save.result.run_id)

IsResampled == rcall.op = "resample_channel"

\* C11 as stated: an unknown method is raised at the point of use whatever
\* the data: resample_channel with an unknown method raises, also on fewer
\* than 2 points, and despike on a Despiker with an unknown replace_method
\* raises, also on a series in which no spike is detected.
C11_AsStated ==
    /\ (IsResampled /\ rcall.method \notin InterpolationMethods)
          => rcall.result.raised
    /\ (IsDespiked /\ despiker.replace_method \notin KnownMethods)
          => dcall.first.raised

\* C13 as stated: for at least 2 samples at strictly increasing timestamps
\* the axis resample_channel returns starts at min(ts), ends at max(ts), is
\* strictly increasing and has consecutive points exactly 1/target_hz apart.
C13_AsStated ==
    (IsResampled /\ Len(rcall.timestamps) >= 2 /\ ~rcall.result.raised) =>
        LET t == rcall.timestamps
            axis == rcall.result.t_new
        IN  /\ Len(axis) >= 1
            /\ axis[1] = Frac(t[1], 1)
            /\ axis[Len(axis)] = Frac(t[Len(t)], 1)
            /\ \A i \in 1..(Len(axis) - 1) :
                  /\ FracLess(axis[i], axis[i + 1])
                  /\ (axis[i + 1][1] * axis[i][2] - axis[i][1] * axis[i + 1][2])
                        * resampler.target_hz
                     = 1000 * axis[i][2] * axis[i + 1][2]

IsProcessRun == acall.op = "process_run"

\* C16: process_run marks a point invalid exactly when its denominator is
\* <= 0 or absent: every force and moment coefficient is invalid where q*A
\* (q*A*wheelbase) is <= 0 and whenever the velocity channel is not in the
\* dataset, and valid otherwise; efficiency is invalid exactly where Cd is
\* <= 0 or invalid; with both wing channels present, balance is invalid
\* exactly where front + rear <= 0.
C16_AsStated ==
    IsProcessRun =>
        LET d == acall.channel_data
            r == acall.result
            has_velocity == channel_mapping.velocity \in DOMAIN d
            q == calculate_dynamic_pressure(
                    GetOr(d, channel_mapping.velocity, << <<50, 1>> >>),
                    GetOr(d, channel_mapping.rho, << RHO_STD >>))
            q_A == Times(q, acalc.reference_area)
            q_A_L == Times(q_A, acalc.wheelbase)
            NoDivisor(x, i) == ~has_velocity \/ ~FPos(At(x, i))
        IN  /\ \A i \in DOMAIN r.Cl : IsNaNF(r.Cl[i]) <=> NoDivisor(q_A, i)
            /\ \A i \in DOMAIN r.Cd : IsNaNF(r.Cd[i]) <=> NoDivisor(q_A, i)
            /\ \A i \in DOMAIN r.Cy : IsNaNF(r.Cy[i]) <=> NoDivisor(q_A, i)
            /\ \A i \in DOMAIN r.Cm_pitch : IsNaNF(r.Cm_pitch[i]) <=> NoDivisor(q_A_L, i)
            /\ \A i \in DOMAIN r.Cm_roll : IsNaNF(r.Cm_roll[i]) <=> NoDivisor(q_A_L, i)
            /\ \A i \in DOMAIN r.Cm_yaw : IsNaNF(r.Cm_yaw[i]) <=> NoDivisor(q_A_L, i)
            /\ \A i \in DOMAIN r.efficiency :
                  IsNaNF(r.efficiency[i]) <=> ~FPos(At(r.Cd, i))
            /\ (channel_mapping.fw_lift \in DOMAIN d /\ channel_mapping.rw_lift \in DOMAIN d) =>
                  \A i \in DOMAIN r.aero_balance :
                      IsNaNF(r.aero_balance[i]) <=>
                          ~FPos(FAdd(FAbs(d[channel_mapping.fw_lift][i]),
                                     FAbs(d[channel_mapping.rw_lift][i])))

\* the number of samples of the channel with the fewest samples
FewestSamples(samples) ==
    SetMin({ Cardinality({ i \in 1..Len(samples) : samples[i].channel_id = samples[j].channel_id })
             : j \in 1..Len(samples) })

\* C12: insufficient data is never fatal: process_from_samples does not
\* raise, whatever the sample list.  Stated here for the lists in which
\* every channel has two samples or more, so that the outcome does not
\* depend on how the installed interp1d treats a single point.
C12_AsStated ==
    \A f \in Frames :
        frames[f].pc = "raised" => FewestSamples(frames[f].samples) < 2

\* the positions of process_from_samples at which the aligned data exist,
\* and those at which the despike results exist too
AfterAlign == {"despike", "aero", "qc", "done"}
AfterDespike == {"aero", "qc", "done"}

\* C14: the aligned dataset of an invocation has one time axis and for each
\* channel a value array of the length of that axis, every time point lies
\* within [max of the channel starts, min of the channel ends], and the
\* aligned data, the despike results and the cleaned data have the same
\* channels, each array of the length of the axis.  Stated for the sample
\* lists in which every channel has two samples or more.
C14_AsStated ==
    \A f \in Frames :
        LET fr == frames[f] IN
        /\ (fr.pc \in AfterAlign /\ fr.samples # <<>> /\ FewestSamples(fr.samples) >= 2) =>
              LET data == fr.resampled.data
                  t_start == SetMax({ data[c].times[1] : c \in DOMAIN data })
                  t_end == SetMin({ data[c].times[Len(data[c].times)] : c \in DOMAIN data })
              IN  /\ DOMAIN fr.aligned_data = DOMAIN data
                  /\ \A c \in DOMAIN fr.aligned_data :
                        Len(fr.aligned_data[c]) = Len(fr.common_time)
                  /\ \A i \in 1..Len(fr.common_time) :
                        t_start <= fr.common_time[i] /\ fr.common_time[i] <= t_end
        /\ fr.pc \in AfterDespike =>
              /\ DOMAIN fr.despike_results = DOMAIN fr.aligned_data
              /\ DOMAIN fr.despiked_data = DOMAIN fr.aligned_data
              /\ \A c \in DOMAIN fr.despiked_data :
                    Len(fr.despiked_data[c]) = Len(fr.common_time)

\* the steps of an invocation: from a position to the next one
StageSteps ==
    { <<"idle", "resample">>, <<"resample", "align">>, <<"align", "despike">>,
      <<"despike", "aero">>, <<"aero", "qc">>, <<"qc", "done">>, <<"done", "idle">>,
      <<"resample", "raised">>, <<"align", "raised">>, <<"despike", "raised">>,
      <<"raised", "idle">> }

\* the dict in key order that run_all_checks is given for these values
InOrder(order, common_time, channel_values) ==
    [k \in 1..Len(order) |->
        [id |-> order[k], t |-> common_time, v |-> channel_values[order[k]]]]

\* C17: an invocation of process_from_samples goes through resample, align,
\* despike, aero metrics and QC in this order, and each stage consumes the
\* output of the stage before: the despike results are those of the aligned
\* values on the aligned axis, the aero metrics are those of the cleaned
\* values, the QC summary is the one of run_all_checks on the cleaned values
\* and the aligned axis with each channel's spike_count as its spike count,
\* and total_spikes is the sum of the spike counts.
C17_StageOrder ==
    [][\A f \in Frames :
          LET fr == frames[f]
              to == frames'[f]
              p == procs[to.self][1]
          IN  fr.pc # to.pc =>
                /\ <<fr.pc, to.pc>> \in StageSteps
                /\ to.pc = "aero" =>
                      /\ DOMAIN to.despike_results = DOMAIN fr.aligned_data
                      /\ \A c \in DOMAIN fr.aligned_data :
                            /\ to.despike_results[c] =
                                  despike(p.despiker, fr.common_time, fr.aligned_data[c])
                            /\ to.despiked_data[c] = to.despike_results[c].cleaned
                      /\ to.total_spikes =
                            SumOver([c \in DOMAIN to.despike_results |->
                                        to.despike_results[c].spike_count],
                                    DOMAIN to.despike_results)
                /\ to.pc = "qc" =>
                      to.aero_metrics =
                          process_run(p.aero_calc,
                              [c \in DOMAIN fr.despiked_data |->
                                  [i \in 1..Len(fr.despiked_data[c]) |->
                                      ToFraction(fr.despiked_data[c][i])]])
                /\ to.pc = "done" =>
                      to.qc_summary =
                          run_all_checks(p.qc_engine.thresholds,
                              InOrder(fr.resampled.order, fr.common_time, fr.despiked_data),
                              IF fr.expected_sample_count = None THEN fr.original_count
                              ELSE fr.expected_sample_count[1],
                              fr.original_count,
                              [none |-> FALSE,
                               counts |-> [c \in DOMAIN fr.despike_results |->
                                              fr.despike_results[c].spike_count]],
                              1000 \div p.target_hz)]_vars

\* an invocation is done whose despike stage replaced a spike
C17_Witness ==
    \E f \in Frames :
        /\ frames[f].pc = "done"
        /\ frames[f].total_spikes > 0
        /\ frames[f].despiked_data # frames[f].aligned_data
        /\ Len(frames[f].resampled.order) = 2

\* C18: process_from_samples changes neither the settings of its
\* RunProcessor nor anything shared between RunProcessors, and whatever the
\* interleaving of the invocations, each ends as it can end when run alone on
\* its input; creating a QCEngine with overrides leaves DEFAULT_THRESHOLDS
\* and the thresholds of every RunProcessor's engine as they were.
C18_Stateless ==
    [][/\ class_thresholds' = DEFAULT_THRESHOLDS
       /\ \A p \in Instances :
             /\ procs[p] # None => procs'[p] = procs[p]
             /\ procs'[p] # None => procs'[p][1].qc_engine.thresholds = DEFAULT_THRESHOLDS
       /\ \A f \in Frames :
             LET to == frames'[f]
                 p == procs'[to.self][1]
             IN  /\ (to.pc = "done" /\ frames[f].pc # "done") =>
                       [raised |-> FALSE, result |-> ResultOf(to)]
                           \in process_from_samples(p, to.run_id, to.samples,
                                                    to.expected_sample_count)
                 /\ (to.pc = "raised" /\ frames[f].pc # "raised") =>
                       RaisedOutcome \in process_from_samples(p, 1, to.samples, None)
                 /\ frames[f].pc \in {"done", "raised"} =>
                       to = frames[f] \/ to = IdleFrame]_vars

\* two RunProcessors are in use at once, one invocation done and the other
\* under way, after a QCEngine was created with overrides
C18_Witness ==
    /\ frames[1].pc = "done"
    /\ frames[2].pc \in {"align", "despike", "aero", "qc"}
    /\ frames[1].self # frames[2].self
    /\ frames[1].total_spikes > 0
    /\ thresholds # DEFAULT_THRESHOLDS

IsCheckGaps == call.op = "check_timestamp_gaps"

\* the number of intervals between consecutive timestamps that are strictly
\* longer than twice expected_dt
LongIntervals(timestamps, expected_dt) ==
    Cardinality({ i \in 1..(Len(timestamps) - 1) :
                    timestamps[i + 1] - timestamps[i] > 2 * expected_dt })

\* C19: check_timestamp_gaps measures the number of intervals strictly
\* greater than 2 * expected_dt; it returns SKIP without a measured value iff
\* fewer than 2 timestamps are given, and otherwise PASS iff that number is
\* 0, WARN iff it is 1 to 5, FAIL iff it is more than 5; an interval equal to
\* 2 * expected_dt is not counted.
C19_TimestampGaps ==
    IsCheckGaps =>
        LET t == call.timestamps
            r == call.result
            n == LongIntervals(t, call.expected_dt)
        IN  /\ r.status = SKIP <=> Len(t) < 2
            /\ r.status = SKIP => r.measured_value = None
            /\ Len(t) >= 2 =>
                  /\ r.measured_value = <<n, 1>>
                  /\ r.status = PASS <=> n = 0
                  /\ r.status = WARN <=> (1 <= n /\ n <= 5)
                  /\ r.status = FAIL <=> n > 5

\* five gaps and two intervals of exactly 2 * expected_dt: a warning
C19_Witness ==
    /\ IsCheckGaps
    /\ call.expected_dt = 10
    /\ Len(call.timestamps) = 8
    /\ LongIntervals(call.timestamps, 10) = 5
    /\ \E i \in 1..7 : call.timestamps[i + 1] - call.timestamps[i] = 20
    /\ call.result.status = WARN

\* what a reader of the database sees of a run: its rows without the time
\* they were written at, and the state of the run
Visible(d, run_id) == [rows |-> Persisted(d, run_id), state_id |-> d.runs[run_id]]

\* C15: saving a result is one atomic unit: while save_results is under way
\* no reader sees some of its writes, and when it has failed or was abandoned
\* none of its writes is visible: the rows and the state of the run are
\* those from before the call.
C15_AsStated ==
    save.pc \in {"statistics", "summary", "rule", "result", "failed"} =>
        Visible(db, save.result.run_id) = Visible(save.before, save.result.run_id)

\* C20: offsets are committed only after a successful flush: no committed
\* offset covers a message that was parsed and whose sample is not in the
\* database, that is, still waits in a buffer.
C20_AsStated ==
    \A r \in RunIds :
        \A k \in 1..Len(consumer.buffer[r]) : consumer.buffer[r][k] > broker.committed

\* the first output time of every channel resample_run returned
FirstTimes(resampled) ==
    { resampled.data[c].times[1] :
        c \in { d \in DOMAIN resampled.data : resampled.data[d].times # <<>> } }

\* C21: resample_run expresses the timestamps as elapsed time from the
\* earliest timestamp of all channels, whatever the representation of the
\* timestamps: the smallest output time over all channels is 0.
C21_AsStated ==
    \A f \in Frames :
        ("resampled" \in DOMAIN frames[f] /\ FirstTimes(frames[f].resampled) # {})
            => SetMin(FirstTimes(frames[f].resampled)) = 0

\* the orders a list of n samples is delivered in: every order of a short
\* list; of a longer one the reverse, the second half before the first, and
\* the samples at odd places before those at even places
Orders(n) ==
    IF n <= MaxPermuted
    THEN { p \in [1..n -> 1..n] : \A i, j \in 1..n : p[i] = p[j] => i = j }
    ELSE { [i \in 1..n |-> n + 1 - i],
           [i \in 1..n |-> ((i + (n \div 2) - 1) % n) + 1],
           [i \in 1..n |-> IF i <= (n + 1) \div 2 THEN 2 * i - 1
                           ELSE 2 * (i - (n + 1) \div 2)] }

Delivered(samples, p) == [i \in 1..Len(samples) |-> samples[p[i]]]

\* what resample_run can return for a list, but for the order of the keys
Resamplings(r, samples) ==
    { [raised |-> x.raised, data |-> x.data] : x \in resample_run(r, samples) }

Increasing(sorted) == \A k \in 1..(Len(sorted) - 1) : sorted[k].t < sorted[k + 1].t

\* C22: resample_run does not depend on the order of delivery: when it has
\* run on a list of samples, the same list in any other order gives the same
\* time axes and values of every channel (or raises alike), and the series
\* of every channel that goes to resample_channel increases in time.
C22_OrderInsensitive ==
    [][\A f \in Frames :
          (frames[f].pc = "resample" /\ frames'[f].pc \in {"align", "raised"}) =>
              /\ [raised |-> frames'[f].pc = "raised",
                  data |-> IF frames'[f].pc = "raised" THEN <<>>
                           ELSE frames'[f].resampled.data]
                    \in Resamplings(Self(f).resampler, frames[f].samples)
              /\ \A p \in Orders(Len(frames[f].samples)) :
                    /\ Resamplings(Self(f).resampler, Delivered(frames[f].samples, p))
                       = Resamplings(Self(f).resampler, frames[f].samples)
                    /\ \A c \in { frames[f].samples[i].channel_id
                                  : i \in 1..Len(frames[f].samples) } :
                          Increasing(SortedChannel(Delivered(frames[f].samples, p), c))
      ]_vars

\* resample_run has returned for two channels delivered latest sample first
C22_Witness ==
    \E f \in Frames :
        /\ frames[f].pc = "align"
        /\ Len(frames[f].resampled.order) = 2
        /\ \E i, j \in 1..Len(frames[f].samples) :
              /\ i < j
              /\ frames[f].samples[i].channel_id = frames[f].samples[j].channel_id
              /\ frames[f].samples[i].ts.ms > frames[f].samples[j].ts.ms
        /\ \E c \in DOMAIN frames[f].resampled.data :
              Len(frames[f].resampled.data[c].times) > 1

\* the checks of a rule in the QC summary of a frame
ChecksOf(frame, rule_code) ==
    SelectSeq(frame.qc_summary.checks, LAMBDA c : c.rule_code = rule_code)

\* C23: when process_from_samples is called without an expected sample
\* count, the missing-samples check of its QC summary is PASS with measured
\* value 0 if a sample was supplied and SKIP if none was: never WARN or FAIL.
C23_MissingNeverFlagged ==
    \A f \in Frames :
        ("qc_summary" \in DOMAIN frames[f] /\ frames[f].expected_sample_count = None) =>
            LET missing == ChecksOf(frames[f], "MISS-DATA")
            IN  /\ Len(missing) = 1
                /\ IF frames[f].original_count > 0
                   THEN /\ missing[1].status = PASS
                        /\ missing[1].measured_value # None
                        /\ missing[1].measured_value[1] = 0
                   ELSE missing[1].status = SKIP

\* a run of several samples was processed to the end without an expected
\* count
C23_Witness ==
    \E f \in Frames :
        /\ frames[f].pc = "done"
        /\ frames[f].expected_sample_count = None
        /\ frames[f].original_count > 1
        /\ ChecksOf(frames[f], "MISS-DATA")[1].status = PASS

\* a DespikeResult for the input values touches flagged samples only
OnlyFlagged(values, r) ==
    /\ Len(r.spike_mask) = Len(values)
    /\ Len(r.cleaned) = Len(values)
    /\ \A i \in 1..Len(values) : ~r.spike_mask[i] => r.cleaned[i] = values[i]
    /\ r.original = values
    /\ r.spike_count = Cardinality({ i \in 1..Len(values) : r.spike_mask[i] })
    /\ r.spike_count = Len(r.spike_indices)
    /\ \A k \in 1..Len(r.spike_indices) : r.spike_mask[r.spike_indices[k] + 1]

\* C24: despike changes flagged samples only: for every replacement policy
\* the cleaned value of an unflagged sample is the input value, the input is
\* kept as `original`, the mask is as long as the input, and spike_count is
\* the number of flagged samples and of spike_indices.
C24_OnlyFlaggedChange ==
    /\ (IsDespiked /\ ~dcall.first.raised) => OnlyFlagged(dcall.values, dcall.first)
    /\ (dcall.op = "despike_again" /\ ~dcall.second.raised) =>
          OnlyFlagged(dcall.first.cleaned, dcall.second)

\* a despike that flagged a sample and left another, under the median policy
C24_Witness ==
    /\ dcall.op = "despike"
    /\ despiker.replace_method = "median"
    /\ ~dcall.first.raised
    /\ dcall.first.spike_count >= 1
    /\ dcall.first.spike_count < Len(dcall.values)
    /\ dcall.first.cleaned # dcall.values

\* the qc_summaries row of a run was written in this step
SummarySaved(run_id) ==
    /\ RowsOf(db.qc_summaries, run_id) = <<>>
    /\ RowsOf(db.qc_summaries, run_id)' # <<>>

\* C25: in the sequence create_run, start_run, complete_run, save_results
\* the state of a run goes 1 (draft), 2 (running), 3 (completed), and the
\* save of the QC summary takes it to 5 (validated) iff the overall status
\* is pass, to 6 (rejected) iff it is fail, and leaves it at 3 iff it is
\* warn; nothing else changes the state of a run.
C25_RunStates ==
    [][\A r \in RunIds :
          /\ db'.runs[r] # db.runs[r] =>
                \/ db.runs[r] = 0 /\ db'.runs[r] = 1 /\ Len(run_rows') = r
                \/ db.runs[r] = 1 /\ db'.runs[r] = 2
                \/ db.runs[r] = 2 /\ db'.runs[r] = 3
                \/ db.runs[r] = 3 /\ db'.runs[r] \in {5, 6} /\ SummarySaved(r)
          /\ Len(run_rows') > Len(run_rows) /\ Len(run_rows') = r => db'.runs[r] = 1
          /\ SummarySaved(r) =>
                LET status == RowsOf(db.qc_summaries, r)'[1].cols.overall_status
                IN  /\ db.runs[r] = 3
                    /\ db'.runs[r] = 5 <=> status = PASS
                    /\ db'.runs[r] = 6 <=> status = FAIL
                    /\ db'.runs[r] = 3 <=> status = WARN
      ]_vars

\* the two runs were created, started and completed, one was saved with a
\* warning and stayed completed, the other failed QC and is rejected
C25_Witness ==
    /\ db.runs[1] = 3
    /\ db.runs[2] = 6
    /\ RowsOf(db.qc_summaries, 1) # <<>>
    /\ RowsOf(db.qc_summaries, 1)[1].cols.overall_status = WARN
    /\ RowsOf(db.qc_summaries, 2) # <<>>

\* C26: the helper never leaves a request in status running: an invocation
\* that marked the request running has marked it completed or failed when
\* it ends; and without --force a request that is completed or rejected is
\* not modified.
C26_AsStated ==
    /\ (helper.pc = "exit" /\ helper.marked) => request.status \in {"completed", "failed"}
    /\ (helper.pc # "idle" /\ ~helper.force
        /\ helper.before.status \in {"completed", "rejected"}) => request = helper.before

\* the number of checks of a summary with the status
NumStatus(s, status) ==
    Cardinality({ i \in 1..Len(s.checks) : s.checks[i].status = status })

\* the FAIL checks of a summary, in the order they were added
Failed(s) == SelectSeq(s.checks, LAMBDA c : c.status = FAIL)

\* C27: after any sequence of add_check calls total_checks is the number of
\* checks and the sum of the four counters, every counter is the number of
\* checks with its status, and critical_issues holds one entry for every
\* FAIL check, in the order they were added, and no other.
C27_Counters ==
    /\ summary.total_checks = Len(summary.checks)
    /\ summary.total_checks = summary.passed_checks + summary.warning_checks
                              + summary.failed_checks + summary.skipped_checks
    /\ summary.passed_checks = NumStatus(summary, PASS)
    /\ summary.warning_checks = NumStatus(summary, WARN)
    /\ summary.failed_checks = NumStatus(summary, FAIL)
    /\ summary.skipped_checks = NumStatus(summary, SKIP)
    /\ summary.critical_issues =
          [k \in 1..Len(Failed(summary)) |->
              <<Failed(summary)[k].rule_code, Failed(summary)[k].details>>]

\* a FAIL check of one rule, a SKIP check and a FAIL check of another rule
\* were added, in this order
C27_Witness ==
    /\ Len(summary.checks) = 3
    /\ summary.checks[1].status = FAIL
    /\ summary.checks[2].status = SKIP
    /\ summary.checks[3].status = FAIL
    /\ summary.checks[1].rule_code # summary.checks[3].rule_code
    /\ Len(summary.critical_issues) = 2

\* at most half of the samples of a series are flagged, and two or more are
\* left when one is
AtMostHalf(values, r) ==
    /\ r.spike_count <= Len(values) \div 2
    /\ r.spike_count >= 1 => Len(values) - r.spike_count >= 2

\* C28: in global mode with threshold * 1.4826 >= 1 detect_spikes flags at
\* most floor(n/2) of n samples, so that two or more unflagged samples are
\* left whenever a spike is flagged and the interpolate policy never falls
\* back to the median.
C28_AtMostHalf ==
    (despiker.window_size = None /\ BoundNum(despiker) >= BoundDen(despiker)) =>
        /\ IsDespiked => AtMostHalf(dcall.values, dcall.first)
        /\ dcall.op = "despike_again" => AtMostHalf(dcall.first.cleaned, dcall.second)

\* a despike in global mode that flagged half of the samples
C28_Witness ==
    /\ dcall.op = "despike"
    /\ despiker.window_size = None
    /\ BoundNum(despiker) >= BoundDen(despiker)
    /\ dcall.first.spike_count >= 2
    /\ 2 * dcall.first.spike_count = Len(dcall.values)

\* two samples of a channel of the frame are more than twice the target
\* period apart with none of that channel between them
RawGap(f) ==
    \E i, j \in 1..Len(frames[f].samples) :
        LET a == frames[f].samples[i]
            b == frames[f].samples[j]
        IN  /\ a.channel_id = b.channel_id
            /\ (b.ts.ms - a.ts.ms) * Self(f).target_hz > 2 * 1000
            /\ \A k \in 1..Len(frames[f].samples) :
                  frames[f].samples[k].channel_id = a.channel_id =>
                      (frames[f].samples[k].ts.ms <= a.ts.ms
                       \/ frames[f].samples[k].ts.ms >= b.ts.ms)

\* C29: the timestamp-gap check of the QC summary process_from_samples
\* builds is never WARN or FAIL: it is PASS when the aligned axis has two
\* points or more and SKIP when it has fewer, whatever gaps the timestamps of
\* the raw samples have.
C29_GapNeverReported ==
    \A f \in Frames :
        "qc_summary" \in DOMAIN frames[f] =>
            LET gaps == ChecksOf(frames[f], "TS-GAP")
            IN  /\ Len(gaps) <= 1
                /\ \A k \in 1..Len(gaps) :
                      gaps[k].status = (IF Len(frames[f].common_time) >= 2
                                        THEN PASS ELSE SKIP)

\* a run whose raw samples have a gap was processed to the end and its
\* timestamp-gap check passed
C29_Witness ==
    \E f \in Frames :
        /\ frames[f].pc = "done"
        /\ RawGap(f)
        /\ Len(ChecksOf(frames[f], "TS-GAP")) = 1
        /\ ChecksOf(frames[f], "TS-GAP")[1].status = PASS

\* the rows of the runs created in a session
RunsOfSession(session_id) ==
    { k \in 1..Len(run_rows) : run_rows[k].session_id = session_id }

\* C30: within a session the run numbers of the created runs are unique and
\* sequential, however the create_run calls of the clients interleave: no
\* two runs of a session have the same run_number and the numbers are 1, 2,
\* 3, ... without gaps.
C30_AsStated ==
    \A session_id \in SessionIds \ {None} :
        /\ \A i, j \in RunsOfSession(session_id) :
              run_rows[i].run_number = run_rows[j].run_number => i = j
        /\ { run_rows[k].run_number : k \in RunsOfSession(session_id) }
              = 1..Cardinality(RunsOfSession(session_id))

====
